---- MODULE Spec2Model ----
(***************************************************************************)
(* Model of the Bybit execution reconciler of kapitalyuga_bot:             *)
(*   src/bybit_testnet_exec_to_sheets.py                                   *)
(*     fetch_bybit_executions      (the page loop and the final sort)      *)
(*     parse_executions_to_trades  (the per-execution loop)                *)
(*     add_trades_to_sheet, __main__ (what is written after a run)         *)
(*                                                                         *)
(* Units.  A quantity is an integer count of 1e-9 coin, so QTY_TOLERANCE   *)
(* (Decimal("1e-9")) is 1.  A price, a value and a fee are counted in      *)
(* whole quote-currency units.  total_entry_value and total_entry_fees are *)
(* divided by quantities in the code, so they are exact fractions          *)
(* <<numerator, denominator>>; Decimal's 28-digit context rounding is far  *)
(* below the 1e-4 / 1e-8 quantize steps applied to every reported number.  *)
(* A formatted price or fee is an integer count of 0.0001, a formatted     *)
(* quantity an integer count of 0.00000001.                                *)
(***************************************************************************)
EXTENDS Integers, Sequences, FiniteSets, TLC

\* ---------------------------------------------------------------- bounds
MaxLen == 3          \* longest execution list of Spec
MaxQty == 3          \* largest execQty, in steps of 10 units
MaxBatchLen == 4     \* longest execution list of SpecBatch
MaxDupLen == 3       \* longest execution list of SpecDup
MaxFetchLen == 3     \* longest execution list of SpecFetch
MaxSeenLen == 3      \* longest execution list of SpecSeen
MaxMultiLen == 3     \* longest execution list of SpecMulti
MaxFaultLen == 3     \* longest execution list of SpecFaults
MaxRerunLen == 3     \* longest execution list of SpecRerun
MaxInvocations == 2  \* invocations on the same arguments in SpecRerun
MaxPages == 3        \* pages of new records the source holds in SpecPages
MaxCells == 2        \* data cells below the header of column AC in SpecIds
MaxRows == 3         \* rows the worksheet holds before the run in SpecSink
MaxSinkLen == 3      \* longest execution list of SpecSink
MaxTinyLen == 3      \* longest execution list of SpecTiny
MaxTieLen == 3       \* longest execution list of SpecTies

\* --------------------------------------------------- program constants
QTY_TOLERANCE == 1   \* Decimal("1e-9"), in units of 1e-9 coin
QTY_QUANT == 10      \* Decimal("0.00000001") is 10 units of 1e-9 coin
PRICE_QUANT == 10000  \* Decimal("0.0001"): formatted prices count 1/10000
\* datetime.datetime.fromtimestamp raises for a timestamp past its last year;
\* on the model's time scale TS_LIMIT is the first such execTime.
TS_LIMIT == 1000000
MAX_API_PAGES == 50

\* ------------------------------------------------------ input alphabet
Sides == {"Buy", "Sell"}
ExecIds == <<"e1", "e2", "e3", "e4", "e5", "e6">>
Qtys == {10 * k : k \in 1..MaxQty}
Prices == {1, 2}

\* ---------------------------------------------------- exact fractions
Abs(x) == IF x < 0 THEN -x ELSE x

RECURSIVE GCD(_, _)
GCD(a, b) == IF b = 0 THEN a ELSE GCD(b, a % b)

Rat(n, d) == LET g == GCD(Abs(n), d) IN <<n \div g, d \div g>>
RInt(n) == <<n, 1>>
RAdd(a, b) == Rat(a[1] * b[2] + b[1] * a[2], a[2] * b[2])
RSub(a, b) == Rat(a[1] * b[2] - b[1] * a[2], a[2] * b[2])
RMul(a, b) == Rat(a[1] * b[1], a[2] * b[2])
RDivInt(a, k) == Rat(a[1], a[2] * k)
RLe(a, b) == a[1] * b[2] <= b[1] * a[2]

Min(a, b) == IF a <= b THEN a ELSE b
Max(a, b) == IF a >= b THEN a ELSE b

\* Decimal.quantize(Decimal("1") / scale, ROUND_HALF_UP) of a fraction >= 0,
\* as a count of 1/scale.
Quantize(r, scale) == (2 * r[1] * scale + r[2]) \div (2 * r[2])

\* datetime.fromtimestamp(ms / 1000) formatted as date and time of day:
\* the whole seconds of the timestamp.
FormatTs(ms) == ms \div 1000

\* ------------------------------------------------ fetch_bybit_executions
\* sorted(all_results, key=lambda x: int(x.get("execTime", 0))): stable.
RECURSIVE InsertByTime(_, _)
InsertByTime(sorted, rec) ==
    IF sorted = <<>> THEN <<rec>>
    ELSE IF sorted[Len(sorted)].execTime <= rec.execTime
         THEN Append(sorted, rec)
         ELSE Append(InsertByTime(SubSeq(sorted, 1, Len(sorted) - 1), rec),
                     sorted[Len(sorted)])

SortNone(list) == list

RECURSIVE SortByTime(_)
SortByTime(list) ==
    IF list = <<>> THEN <<>>
    ELSE InsertByTime(SortByTime(SubSeq(list, 1, Len(list) - 1)), list[Len(list)])

\* What fetch_bybit_executions returns: [] from the except clause, the sorted
\* records after the loop otherwise, an error response included.
FetchResultKeepsAll(how, list) == SortByTime(list)

FetchResultDropsOnFailure(how, list) ==
    IF how # "" THEN <<>> ELSE SortByTime(list)

FetchResult(how, list) ==
    IF how = "exception" THEN <<>> ELSE SortByTime(list)

\* -------------------------------------------- parse_executions_to_trades
\* The local state of one invocation.
EmptyRun ==
    [open_positions |-> <<>>, closed_trades |-> <<>>, processed |-> {},
     raised |-> FALSE]

\* if not exec_id or exec_id in existing_ids or exec_id in processed...
IdSkippedNoRunCheck(rec, existing, processed) ==
    rec.execId = "" \/ rec.execId \in existing

IdSkippedNoSheetCheck(rec, existing, processed) ==
    rec.execId = "" \/ rec.execId \in processed

IdSkipped(rec, existing, processed) ==
    rec.execId = "" \/ rec.execId \in existing \/ rec.execId \in processed

\* Decimal(exec_record.get(...)) of execQty, execPrice and execFee.  A null
\* field raises TypeError, which the except clause of the loop catches; a
\* text that is no number raises decimal.InvalidOperation, an ArithmeticError
\* that the clause (TypeError, ValueError, KeyError) does not catch.
ParseCaught(rec) == rec.decimals = "null"
ParseRaises(rec) == rec.decimals = "text"

\* if not symbol or not side or exec_qty_dec <= ZERO or ... : continue
InvalidCoreAllowsZeroQty(rec) ==
    \/ rec.symbol = ""
    \/ rec.side = ""
    \/ rec.execQty < 0
    \/ rec.execPrice <= 0
    \/ rec.execTime = 0

InvalidCore(rec) ==
    \/ rec.symbol = ""
    \/ rec.side = ""
    \/ rec.execQty <= 0
    \/ rec.execPrice <= 0
    \/ rec.execTime = 0

\* The dictionary stored by "Открытие новой позиции".
NewPosition(rec) ==
    [side |-> rec.side,
     total_qty |-> rec.execQty,
     total_entry_value |-> RInt(rec.execQty * rec.execPrice),
     total_entry_fees |-> RInt(rec.execFee),
     first_entry_ts_ms |-> rec.execTime,
     last_entry_ts_ms |-> rec.execTime,
     entry_exec_ids |-> <<rec.execId>>,
     accum_exit_value |-> 0,
     accum_exit_fees |-> 0,
     exit_exec_ids |-> <<>>,
     last_exit_ts_ms |-> 0,
     last_exit_order_type |-> ""]

\* "Увеличение существующей позиции".
IncreasedNoValue(pos, rec) ==
    [pos EXCEPT !.total_qty = @ + rec.execQty,
                !.total_entry_fees = RAdd(@, RInt(rec.execFee)),
                !.last_entry_ts_ms = Max(@, rec.execTime),
                !.entry_exec_ids = Append(@, rec.execId)]

IncreasedSubtracts(pos, rec) ==
    [pos EXCEPT !.total_qty = @ - rec.execQty,
                !.total_entry_value = RAdd(@, RInt(rec.execQty * rec.execPrice)),
                !.total_entry_fees = RAdd(@, RInt(rec.execFee)),
                !.last_entry_ts_ms = Max(@, rec.execTime),
                !.entry_exec_ids = Append(@, rec.execId)]

IncreasedForgetsId(pos, rec) ==
    [pos EXCEPT !.total_qty = @ + rec.execQty,
                !.total_entry_value = RAdd(@, RInt(rec.execQty * rec.execPrice)),
                !.total_entry_fees = RAdd(@, RInt(rec.execFee)),
                !.last_entry_ts_ms = Max(@, rec.execTime)]

Increased(pos, rec) ==
    [pos EXCEPT !.total_qty = @ + rec.execQty,
                !.total_entry_value = RAdd(@, RInt(rec.execQty * rec.execPrice)),
                !.total_entry_fees = RAdd(@, RInt(rec.execFee)),
                !.last_entry_ts_ms = Max(@, rec.execTime),
                !.entry_exec_ids = Append(@, rec.execId)]

\* closed_qty = min(exec_qty_dec, pos["total_qty"])
ClosedQtyWholeFill(pos, rec) == rec.execQty

ClosedQty(pos, rec) == Min(rec.execQty, pos.total_qty)

\* proportion_closed = closed_qty / pos["total_qty"], before the reduction
ProportionClosed(pos, rec) == Rat(ClosedQty(pos, rec), pos.total_qty)

\* The exit accumulation and the proportional reduction of the position.
ReducedWholeFillValue(pos, rec) ==
    LET closed_qty == ClosedQty(pos, rec)
        proportion_closed == ProportionClosed(pos, rec)
    IN [pos EXCEPT
          !.accum_exit_value = @ + rec.execQty * rec.execPrice,
          !.accum_exit_fees = @ + rec.execFee,
          !.exit_exec_ids = Append(@, rec.execId),
          !.last_exit_ts_ms = Max(@, rec.execTime),
          !.last_exit_order_type = rec.orderType,
          !.total_qty = @ - closed_qty,
          !.total_entry_value = RSub(@, RMul(@, proportion_closed)),
          !.total_entry_fees = RSub(@, RMul(@, proportion_closed))]

ReducedKeepsExitTime(pos, rec) ==
    LET closed_qty == ClosedQty(pos, rec)
        proportion_closed == ProportionClosed(pos, rec)
    IN [pos EXCEPT
          !.accum_exit_value = @ + closed_qty * rec.execPrice,
          !.accum_exit_fees = @ + rec.execFee,
          !.exit_exec_ids = Append(@, rec.execId),
          !.last_exit_order_type = rec.orderType,
          !.total_qty = @ - closed_qty,
          !.total_entry_value = RSub(@, RMul(@, proportion_closed)),
          !.total_entry_fees = RSub(@, RMul(@, proportion_closed))]

ReducedKeepsFirstExitType(pos, rec) ==
    LET closed_qty == ClosedQty(pos, rec)
        proportion_closed == ProportionClosed(pos, rec)
    IN [pos EXCEPT
          !.accum_exit_value = @ + closed_qty * rec.execPrice,
          !.accum_exit_fees = @ + rec.execFee,
          !.exit_exec_ids = Append(@, rec.execId),
          !.last_exit_ts_ms = Max(@, rec.execTime),
          !.last_exit_order_type = IF @ = "" THEN rec.orderType ELSE @,
          !.total_qty = @ - closed_qty,
          !.total_entry_value = RSub(@, RMul(@, proportion_closed)),
          !.total_entry_fees = RSub(@, RMul(@, proportion_closed))]

ReducedSwitchesSide(pos, rec) ==
    LET closed_qty == ClosedQty(pos, rec)
        proportion_closed == ProportionClosed(pos, rec)
    IN [pos EXCEPT
          !.side = rec.side,
          !.accum_exit_value = @ + closed_qty * rec.execPrice,
          !.accum_exit_fees = @ + rec.execFee,
          !.exit_exec_ids = Append(@, rec.execId),
          !.last_exit_ts_ms = Max(@, rec.execTime),
          !.last_exit_order_type = rec.orderType,
          !.total_qty = @ - closed_qty,
          !.total_entry_value = RSub(@, RMul(@, proportion_closed)),
          !.total_entry_fees = RSub(@, RMul(@, proportion_closed))]

ReducedKeepsEntryValue(pos, rec) ==
    LET closed_qty == ClosedQty(pos, rec)
    IN [pos EXCEPT
          !.accum_exit_value = @ + closed_qty * rec.execPrice,
          !.accum_exit_fees = @ + rec.execFee,
          !.exit_exec_ids = Append(@, rec.execId),
          !.last_exit_ts_ms = Max(@, rec.execTime),
          !.last_exit_order_type = rec.orderType,
          !.total_qty = @ - closed_qty]

Reduced(pos, rec) ==
    LET closed_qty == ClosedQty(pos, rec)
        proportion_closed == ProportionClosed(pos, rec)
    IN [pos EXCEPT
          !.accum_exit_value = @ + closed_qty * rec.execPrice,
          !.accum_exit_fees = @ + rec.execFee,
          !.exit_exec_ids = Append(@, rec.execId),
          !.last_exit_ts_ms = Max(@, rec.execTime),
          !.last_exit_order_type = rec.orderType,
          !.total_qty = @ - closed_qty,
          !.total_entry_value = RSub(@, RMul(@, proportion_closed)),
          !.total_entry_fees = RSub(@, RMul(@, proportion_closed))]

\* if pos["total_qty"] <= QTY_TOLERANCE, on the reduced position
FullyClosedBelowZero(pos) == pos.total_qty < 0

FullyClosed(pos) == pos.total_qty <= QTY_TOLERANCE

\* The try block that builds closed_trade_data raises when fromtimestamp
\* rejects the first entry time or the last exit time of the reduced position.
FormatFails(pos) ==
    pos.first_entry_ts_ms >= TS_LIMIT \/ pos.last_exit_ts_ms >= TS_LIMIT

\* closed_trade_data, built from the reduced position `pos`.
ClosedTradeData(symbol, pos, closed_qty, proportion_closed) ==
    LET avg_entry_price ==
            IF closed_qty > 0
            THEN RDivInt(RAdd(pos.total_entry_value, pos.total_entry_fees), closed_qty)
            ELSE RInt(0)
        avg_exit_price ==
            IF closed_qty > 0 THEN Rat(pos.accum_exit_value, closed_qty) ELSE RInt(0)
    IN [entry_dt |-> FormatTs(pos.first_entry_ts_ms),
        exit_dt |-> FormatTs(pos.last_exit_ts_ms),
        pair |-> symbol,
        type |-> IF pos.side = "Buy" THEN "Long" ELSE "Short",
        entry_price_avg |-> Quantize(avg_entry_price, PRICE_QUANT),
        volume_coins |-> Quantize(<<closed_qty, QTY_QUANT>>, 1),
        commission_entry |->
            Quantize(RAdd(pos.total_entry_fees,
                          RMul(pos.total_entry_fees, proportion_closed)),
                     PRICE_QUANT),
        commission_exit |-> Quantize(RInt(pos.accum_exit_fees), PRICE_QUANT),
        exit_method |-> pos.last_exit_order_type,
        exit_price_avg |-> Quantize(avg_exit_price, PRICE_QUANT),
        involved_exec_ids |-> pos.entry_exec_ids \o pos.exit_exec_ids]

\* remaining_exec_qty = exec_qty_dec - closed_qty
RemainingExecQty(pos, rec) == rec.execQty - ClosedQty(pos, rec)

\* if remaining_exec_qty > QTY_TOLERANCE
Flips(pos, rec) == RemainingExecQty(pos, rec) > QTY_TOLERANCE

\* The dictionary stored by "Обработка переворота позиции".
FlippedPositionWholeFill(pos, rec) == NewPosition(rec)

FlippedPositionKeepsEntryIds(pos, rec) ==
    LET remaining_exec_qty == RemainingExecQty(pos, rec)
    IN [side |-> rec.side,
        total_qty |-> remaining_exec_qty,
        total_entry_value |-> RInt(remaining_exec_qty * rec.execPrice),
        total_entry_fees |->
            IF rec.execQty > 0
            THEN RMul(Rat(rec.execFee, rec.execQty), RInt(remaining_exec_qty))
            ELSE RInt(0),
        first_entry_ts_ms |-> rec.execTime,
        last_entry_ts_ms |-> rec.execTime,
        entry_exec_ids |-> Append(pos.entry_exec_ids, rec.execId),
        accum_exit_value |-> 0,
        accum_exit_fees |-> 0,
        exit_exec_ids |-> <<>>,
        last_exit_ts_ms |-> 0,
        last_exit_order_type |-> ""]

FlippedPositionCarriesOver(pos, rec) ==
    LET remaining_exec_qty == RemainingExecQty(pos, rec)
    IN [side |-> rec.side,
        total_qty |-> remaining_exec_qty,
        total_entry_value |-> RInt(remaining_exec_qty * rec.execPrice),
        total_entry_fees |->
            IF rec.execQty > 0
            THEN RMul(Rat(rec.execFee, rec.execQty), RInt(remaining_exec_qty))
            ELSE RInt(0),
        first_entry_ts_ms |-> pos.first_entry_ts_ms,
        last_entry_ts_ms |-> rec.execTime,
        entry_exec_ids |-> <<rec.execId>>,
        accum_exit_value |-> pos.accum_exit_value,
        accum_exit_fees |-> pos.accum_exit_fees,
        exit_exec_ids |-> <<>>,
        last_exit_ts_ms |-> 0,
        last_exit_order_type |-> ""]

FlippedPosition(pos, rec) ==
    LET remaining_exec_qty == RemainingExecQty(pos, rec)
    IN [side |-> rec.side,
        total_qty |-> remaining_exec_qty,
        total_entry_value |-> RInt(remaining_exec_qty * rec.execPrice),
        total_entry_fees |->
            IF rec.execQty > 0
            THEN RMul(Rat(rec.execFee, rec.execQty), RInt(remaining_exec_qty))
            ELSE RInt(0),
        first_entry_ts_ms |-> rec.execTime,
        last_entry_ts_ms |-> rec.execTime,
        entry_exec_ids |-> <<rec.execId>>,
        accum_exit_value |-> 0,
        accum_exit_fees |-> 0,
        exit_exec_ids |-> <<>>,
        last_exit_ts_ms |-> 0,
        last_exit_order_type |-> ""]

\* Dictionary helpers: open_positions is a function on the symbols that have
\* a position.
Put(map, key, val) == [k \in DOMAIN map \cup {key} |-> IF k = key THEN val ELSE map[k]]
Del(map, key) == [k \in DOMAIN map \ {key} |-> map[k]]

\* except Exception as format_e: the position is deleted, nothing is appended.
AfterFormatErrorKeeps(positions, symbol) == positions

AfterFormatError(positions, symbol) == Del(positions, symbol)

\* processed_exec_ids_in_run.add(exec_id): the ID of an accepted record goes
\* to the set of this invocation; the caller's set is only read.
MarkInCallersSet(sets, id) ==
    [existing |-> sets.existing \cup {id}, processed |-> sets.processed]

Mark(sets, id) ==
    [existing |-> sets.existing, processed |-> sets.processed \cup {id}]

\* Which branch of the loop body an execution takes in a given run state.
Branch(st, rec, existing) ==
    IF IdSkipped(rec, existing, st.processed) THEN "skip"
    ELSE IF ParseRaises(rec) THEN "raise"
    ELSE IF ParseCaught(rec) \/ InvalidCore(rec) THEN "skip"
    ELSE IF rec.symbol \notin DOMAIN st.open_positions THEN "open"
    ELSE LET pos == st.open_positions[rec.symbol] IN
         IF rec.side = pos.side THEN "increase"
         ELSE IF ClosedQty(pos, rec) <= 0 THEN "noop"
         ELSE IF ~FullyClosed(Reduced(pos, rec)) THEN
                 IF Flips(pos, rec) THEN "overwrite" ELSE "reduce"
         ELSE IF FormatFails(Reduced(pos, rec)) THEN
                 IF Flips(pos, rec) THEN "dropflip" ELSE "drop"
         ELSE IF Flips(pos, rec) THEN "flip" ELSE "close"

\* One iteration of "for exec_record in executions".
Step(st, rec, existing) ==
    LET kind == Branch(st, rec, existing)
        done == [st EXCEPT !.processed =
                    Mark([existing |-> existing, processed |-> @], rec.execId).processed]
    IN
    IF kind = "skip" THEN st
    ELSE IF kind = "raise" THEN [st EXCEPT !.raised = TRUE]
    ELSE IF kind = "open" THEN
        [done EXCEPT !.open_positions = Put(@, rec.symbol, NewPosition(rec))]
    ELSE IF kind = "noop" THEN done
    ELSE
        LET pos == st.open_positions[rec.symbol] IN
        IF kind = "increase" THEN
            [done EXCEPT !.open_positions = Put(@, rec.symbol, Increased(pos, rec))]
        ELSE
            LET red == Reduced(pos, rec)
                trade == ClosedTradeData(rec.symbol, red, ClosedQty(pos, rec),
                                         ProportionClosed(pos, rec))
                kept == IF ~FullyClosed(red)
                        THEN Put(st.open_positions, rec.symbol, red)
                        ELSE IF FormatFails(red)
                        THEN AfterFormatError(Put(st.open_positions, rec.symbol, red),
                                              rec.symbol)
                        ELSE Del(st.open_positions, rec.symbol)
            IN [done EXCEPT
                  !.closed_trades =
                      IF FullyClosed(red) /\ ~FormatFails(red)
                      THEN Append(@, trade) ELSE @,
                  !.open_positions =
                      IF Flips(pos, rec)
                      THEN Put(kept, rec.symbol, FlippedPosition(pos, rec))
                      ELSE kept]

\* The whole loop over one list of executions.
RECURSIVE RunFrom(_, _, _)
RunFrom(st, execs, existing) ==
    IF execs = <<>> \/ st.raised THEN st
    ELSE RunFrom(Step(st, Head(execs), existing), Tail(execs), existing)

\* closed_trades = [], open_positions = {}, processed_exec_ids_in_run = set():
\* the locals of an invocation, whatever an earlier invocation left behind.
StartRunKeepsSets(previous) == [previous EXCEPT !.closed_trades = <<>>]

StartRun(previous) == EmptyRun

\* After the loop: the open positions are logged and closed_trades is
\* returned.
ReturnedWithOpen(st) ==
    IF st.open_positions = <<>> THEN st.closed_trades
    ELSE LET sym == CHOOSE k \in DOMAIN st.open_positions : TRUE
             pos == st.open_positions[sym]
         IN Append(st.closed_trades,
                   ClosedTradeData(sym, pos, pos.total_qty, RInt(0)))

Returned(st) == st.closed_trades

parse_executions_to_trades(execs, existing) ==
    Returned(RunFrom(EmptyRun, execs, existing))

\* --------------------------------------------------------------- state
VARIABLES
    pc,                        \* "start", "read_ids", "request", "fetch",
                               \* "parse", "done", "raised", "finished" or
                               \* "exited"
    bot,                       \* the Telegram bot is configured
    notifications,             \* the messages sent by this run, by kind
    id_cells,                  \* column AC of the sheet, as col_values reads it
    response,                  \* kind of the last page response
    page_count,                \* fetch_bybit_executions: pages requested
    failure,                   \* "", "error" (retCode # 0) or "exception"
    sheet,                     \* the trades this run wrote to the sheet
    worksheet,                 \* the rows of the worksheet, as cells by field
    added_count,               \* __main__: result of add_trades_to_sheet
    all_results,               \* fetch_bybit_executions: records as fetched
    executions,                \* the list handed to parse_executions_to_trades
    existing_ids,              \* the IDs already written to the sheet
    idx,                       \* position of the for loop in executions
    open_positions,            \* symbol -> position dictionary
    closed_trades,             \* the list the invocation returns
    processed_exec_ids_in_run, \* IDs consumed by this invocation
    ledger,                    \* history: symbol -> fills applied to its position
    trade_ledger,              \* history: the ledger of each emitted trade
    earlier                    \* the lists returned by earlier invocations

vars == <<pc, all_results, executions, existing_ids, idx, open_positions,
          closed_trades, processed_exec_ids_in_run, ledger, trade_ledger,
          earlier, page_count, failure, sheet, added_count, bot, notifications,
          id_cells, response, worksheet>>

\* The state of the fetch loop and of __main__ around the invocation.
mainVars ==
    <<page_count, failure, sheet, added_count, bot, notifications, id_cells,
      response, worksheet>>

\* send_telegram_notification: the message is sent when the bot is
\* configured and only logged otherwise; an exception of send_message is
\* caught, so the call never raises.
NotifiedNeedsBot(has_bot, sent, kind) ==
    [sent |-> IF has_bot THEN Append(sent, kind) ELSE sent, raised |-> ~has_bot]

Notified(has_bot, sent, kind) ==
    [sent |-> IF has_bot THEN Append(sent, kind) ELSE sent, raised |-> FALSE]

\* A step that notifies and then goes on at `target`.
Notify(kind, target) ==
    LET out == Notified(bot, notifications, kind) IN
    /\ notifications' = out.sent
    /\ pc' = IF out.raised THEN "raised" ELSE target

\* An execution record as the exchange returns it.
Exec(id, symbol, side, qty, price, fee, time, type) ==
    [execId |-> id, symbol |-> symbol, side |-> side, execQty |-> qty,
     execPrice |-> price, execFee |-> fee, execTime |-> time, orderType |-> type,
     decimals |-> "ok"]

\* The record shapes of the specifications: the fee is one unit per price
\* unit, a fill at the higher price is a take-profit order, and one shape
\* is malformed (execQty 0).
TypeAt(price) == IF price = 2 THEN "TakeProfit" ELSE "Market"

Shapes ==
    {[side |-> s, execQty |-> q, execPrice |-> p] : s \in Sides, q \in Qtys, p \in Prices}
        \cup {[side |-> "Buy", execQty |-> 0, execPrice |-> 1]}

LeanShapes == {sh \in Shapes : sh.execPrice = 1}

ShapedExec(id, time, sh) ==
    Exec(id, "SOLUSDT", sh.side, sh.execQty, sh.execPrice, sh.execPrice, time,
         TypeAt(sh.execPrice))

\* A list of records with fresh IDs, fetched in ascending time order.
FreshList(shapes) ==
    [i \in DOMAIN shapes |-> ShapedExec(ExecIds[i], 1000 * i, shapes[i])]

InitLocals ==
    /\ executions = <<>>
    /\ idx = 1
    /\ open_positions = <<>>
    /\ closed_trades = <<>>
    /\ processed_exec_ids_in_run = {}
    /\ ledger = <<>>
    /\ trade_ledger = <<>>
    /\ earlier = <<>>
    /\ sheet = <<>>
    /\ added_count = 0
    /\ notifications = <<>>

\* The fetch loop has ended without a failure after one page; the IDs of the
\* sheet were read before and the column is not read again.
InitFetched ==
    /\ pc = "fetch"
    /\ page_count = 1
    /\ failure = ""
    /\ response = IF all_results = <<>> THEN "empty" ELSE "last"
    /\ bot = TRUE
    /\ id_cells = <<>>
    /\ InitLocals

\* The same on an empty worksheet.
InitRun ==
    /\ InitFetched
    /\ worksheet = <<>>

Init ==
    /\ \E len \in 0..MaxLen : \E shapes \in [1..len -> Shapes] :
          all_results = FreshList(shapes)
    /\ existing_ids = {}
    /\ InitRun

\* After the loop a warning is sent if MAX_API_PAGES pages were requested;
\* fetch_bybit_executions returns the fetched records sorted by execTime and
\* __main__ hands them to parse_executions_to_trades, unless the list is empty
\* ("Nothing to process").
FetchReturn ==
    /\ pc = "fetch"
    /\ executions' = FetchResult(failure, all_results)
    /\ LET target == IF executions' = <<>> THEN "finished" ELSE "parse" IN
         IF page_count >= MAX_API_PAGES
         THEN Notify("warning", target)
         ELSE pc' = target /\ UNCHANGED notifications
    /\ UNCHANGED <<all_results, existing_ids, idx, open_positions, closed_trades,
                   processed_exec_ids_in_run, ledger, trade_ledger,
                   earlier>>
    /\ UNCHANGED <<page_count, failure, sheet, added_count, bot, id_cells,
                   response,
                   worksheet>>

RunState ==
    [open_positions |-> open_positions, closed_trades |-> closed_trades,
     processed |-> processed_exec_ids_in_run, raised |-> pc = "raised"]

\* History of the fills applied to positions, kept beside the code's state.
EntryOf(rec) ==
    [qty |-> rec.execQty, price |-> rec.execPrice, fee |-> RInt(rec.execFee),
     id |-> rec.execId, time |-> rec.execTime]
ExitOf(pos, rec) ==
    [qty |-> Min(rec.execQty, pos.total_qty), price |-> rec.execPrice,
     fee |-> rec.execFee, type |-> rec.orderType, time |-> rec.execTime,
     id |-> rec.execId]
ResidualOf(pos, rec) ==
    [qty |-> rec.execQty - pos.total_qty, price |-> rec.execPrice,
     fee |-> Rat(rec.execFee * (rec.execQty - pos.total_qty), rec.execQty),
     id |-> rec.execId, time |-> rec.execTime]

LedgerStep(kind, rec) ==
    LET sym == rec.symbol IN
    IF kind = "skip" THEN UNCHANGED <<ledger, trade_ledger>>
    ELSE IF kind = "open" THEN
        /\ ledger' = Put(ledger, sym, [entries |-> <<EntryOf(rec)>>, exits |-> <<>>])
        /\ UNCHANGED trade_ledger
    ELSE IF kind = "increase" THEN
        /\ ledger' = [ledger EXCEPT ![sym].entries = Append(@, EntryOf(rec))]
        /\ UNCHANGED trade_ledger
    ELSE LET pos == open_positions[sym]
             led == [ledger[sym] EXCEPT !.exits = Append(@, ExitOf(pos, rec))]
         IN IF kind = "reduce" THEN
                /\ ledger' = [ledger EXCEPT ![sym] = led]
                /\ UNCHANGED trade_ledger
            ELSE
                /\ trade_ledger' =
                     IF kind \in {"close", "flip"}
                     THEN Append(trade_ledger, led) ELSE trade_ledger
                /\ ledger' =
                     IF kind \in {"flip", "dropflip"}
                     THEN Put(ledger, sym,
                              [entries |-> <<ResidualOf(pos, rec)>>, exits |-> <<>>])
                     ELSE Del(ledger, sym)

\* One iteration of the loop, taking the branch `kind`.
ParseStep(kind) ==
    /\ idx <= Len(executions)
    /\ Branch(RunState, executions[idx], existing_ids) = kind
    /\ LET next == Step(RunState, executions[idx], existing_ids) IN
         /\ open_positions' = next.open_positions
         /\ closed_trades' = next.closed_trades
         /\ processed_exec_ids_in_run' = next.processed
    /\ existing_ids' =
         IF kind = "skip" THEN existing_ids
         ELSE Mark([existing |-> existing_ids,
                    processed |-> processed_exec_ids_in_run],
                   executions[idx].execId).existing
    /\ LedgerStep(kind, executions[idx])
    /\ idx' = idx + 1
    /\ UNCHANGED <<pc, all_results, executions, earlier>>
    /\ UNCHANGED mainVars

\* continue: the ID is missing, already recorded or already processed, or the
\* core data is invalid.
SkipExecution ==
    /\ pc = "parse"
    /\ ParseStep("skip")

\* if not pos: the execution opens a position.
OpenPosition ==
    /\ pc = "parse"
    /\ ParseStep("open")

\* side == pos["side"]: the execution adds to the position.
IncreasePosition ==
    /\ pc = "parse"
    /\ ParseStep("increase")

\* An opposite-side execution that leaves the position open.
ReducePosition ==
    /\ pc = "parse"
    /\ ParseStep("reduce")

\* An opposite-side execution that closes the position and leaves no residual.
ClosePosition ==
    /\ pc = "parse"
    /\ ParseStep("close")

\* An opposite-side execution larger than the position: close and reopen.
FlipPosition ==
    /\ pc = "parse"
    /\ ParseStep("flip")

\* The closed position cannot be formatted: it is deleted and no trade is
\* appended.
DropPosition ==
    /\ pc = "parse"
    /\ ParseStep("drop")

\* The same, and the rest of the execution opens the opposite position.
DropAndFlip ==
    /\ pc = "parse"
    /\ ParseStep("dropflip")

\* Decimal() raises decimal.InvalidOperation, which leaves the function.
RaiseInvalidOperation ==
    /\ pc = "parse"
    /\ idx <= Len(executions)
    /\ Branch(RunState, executions[idx], existing_ids) = "raise"
    /\ pc' = "raised"
    /\ UNCHANGED <<all_results, executions, existing_ids, idx, open_positions,
                   closed_trades, processed_exec_ids_in_run, ledger, trade_ledger,
                   earlier>>
    /\ UNCHANGED mainVars

\* The loop ends and the invocation returns closed_trades.
Return ==
    /\ pc = "parse"
    /\ idx > Len(executions)
    /\ pc' = "done"
    /\ closed_trades' = Returned(RunState)
    /\ UNCHANGED <<all_results, executions, existing_ids, idx, open_positions,
                   processed_exec_ids_in_run, ledger, trade_ledger,
                   earlier>>
    /\ UNCHANGED mainVars

Next ==
    \/ FetchReturn
    \/ SkipExecution
    \/ OpenPosition
    \/ IncreasePosition
    \/ ReducePosition
    \/ ClosePosition
    \/ FlipPosition
    \/ Return

Spec == Init /\ [][Next]_vars

\* SpecTiny: the loop step by step on quantities at and next to
\* QTY_TOLERANCE (1 and 2 units), beside a quantity of 10 and the invalid
\* quantity 0.
TinyQtys == {QTY_TOLERANCE, 2 * QTY_TOLERANCE, 10}

TinyShapes ==
    {[side |-> s, execQty |-> q, execPrice |-> 1] : s \in Sides, q \in TinyQtys}
        \cup {[side |-> "Sell", execQty |-> 0, execPrice |-> 1]}

InitTiny ==
    /\ \E len \in 0..MaxTinyLen : \E shapes \in [1..len -> TinyShapes] :
          all_results = FreshList(shapes)
    /\ existing_ids = {}
    /\ InitRun

SpecTiny == InitTiny /\ [][Next]_vars

\* ------------------------------------------------- batch specifications
\* The whole invocation of parse_executions_to_trades as one step, for the
\* properties of the function on a complete list.
ParseAll ==
    /\ pc = "parse"
    /\ idx = 1
    /\ LET run == RunFrom(StartRun(RunState), executions, existing_ids) IN
         /\ open_positions' = run.open_positions
         /\ closed_trades' = Returned(run)
         /\ processed_exec_ids_in_run' = run.processed
    /\ idx' = Len(executions) + 1
    /\ pc' = "done"
    /\ UNCHANGED <<all_results, executions, existing_ids, ledger, trade_ledger,
                   earlier>>
    /\ UNCHANGED mainVars

NextBatch ==
    \/ FetchReturn
    \/ ParseAll

\* SpecBatch: fresh IDs in ascending time order, some already in the sheet.
InitBatch ==
    /\ \E len \in 0..MaxBatchLen : \E shapes \in [1..len -> LeanShapes] :
          all_results = FreshList(shapes)
    /\ existing_ids \in SUBSET {ExecIds[1], ExecIds[2]}
    /\ InitRun

SpecBatch == InitBatch /\ [][NextBatch]_vars

\* SpecRerun: the caller invokes the function again on the same arguments.
Reinvoke ==
    /\ pc = "done"
    /\ Len(earlier) + 1 < MaxInvocations
    /\ pc' = "parse"
    /\ idx' = 1
    /\ earlier' = Append(earlier, closed_trades)
    /\ UNCHANGED <<all_results, executions, existing_ids, open_positions,
                   closed_trades, processed_exec_ids_in_run, ledger, trade_ledger>>
    /\ UNCHANGED mainVars

NextRerun ==
    \/ FetchReturn
    \/ ParseAll
    \/ Reinvoke

InitRerun ==
    /\ \E len \in 0..MaxRerunLen : \E shapes \in [1..len -> LeanShapes] :
          all_results = FreshList(shapes)
    /\ existing_ids \in SUBSET {ExecIds[1]}
    /\ InitRun

SpecRerun == InitRerun /\ [][NextRerun]_vars

\* SpecDup: a record may carry the ID of an earlier record of the list
\* (duplicate delivery by the paginated source).
InitDup ==
    /\ \E len \in 0..MaxDupLen :
          \E shapes \in [1..len -> LeanShapes] :
            \E ids \in [1..len -> 1..len] :
              /\ \A i \in 1..len : ids[i] <= i
              /\ all_results =
                   [i \in 1..len |-> ShapedExec(ExecIds[ids[i]], 1000 * i, shapes[i])]
    /\ existing_ids = {}
    /\ InitRun

SpecDup == InitDup /\ [][NextBatch]_vars

\* SpecFetch: the pages arrive in any order of pairwise distinct execTime.
FetchShapes == {sh \in LeanShapes : sh.execQty \in {10, 20}}

InitFetch ==
    /\ \E len \in 0..MaxFetchLen :
          \E shapes \in [1..len -> FetchShapes] :
            \E order \in Permutations(1..len) :
              all_results =
                [i \in 1..len |-> ShapedExec(ExecIds[i], 1000 * order[i], shapes[i])]
    /\ existing_ids = {}
    /\ InitRun

SpecFetch == InitFetch /\ [][NextBatch]_vars

\* SpecTies: lists in non-decreasing time order in which a fill may carry
\* the timestamp of the fill before it, or one of the same second.
TimeSteps == {0, 1, 1000}

RECURSIVE TimesFrom(_, _)
TimesFrom(start, steps) ==
    IF steps = <<>> THEN <<>>
    ELSE <<start + Head(steps)>> \o TimesFrom(start + Head(steps), Tail(steps))

InitTies ==
    /\ \E len \in 0..MaxTieLen :
          \E shapes \in [1..len -> FetchShapes] :
            \E steps \in [1..len -> TimeSteps] :
              all_results =
                [i \in 1..len |->
                    ShapedExec(ExecIds[i], TimesFrom(1000, steps)[i], shapes[i])]
    /\ existing_ids = {}
    /\ InitRun

SpecTies == InitTies /\ [][NextBatch]_vars

\* ------------------------------------------------ get_existing_exec_ids
\* A cell of column AC is the list of its comma-separated parts; a part is
\* its text without the surrounding whitespace (`core`) and whether it had
\* any (`padded`).  "".split(",") is [""], so the empty cell is one empty part.
Part(core, padded) == [core |-> core, padded |-> padded]
EmptyCell == <<Part("", FALSE)>>

\* The texts of the alphabet whose lower case contains "id".
IdTexts == {"Exec IDs", "bid3"}

\* if cell_value
CellIsEmpty(cell) == cell = EmptyCell

\* isinstance(cell_value, str) and "id" in cell_value.lower()
LooksLikeHeader(cell) == \E i \in 1..Len(cell) : cell[i].core \in IdTexts

\* exec_id.strip()
Strip(part) == part.core

\* The cleaned, non-empty IDs of str(cell_value).split(",")
IdsInCell(cell) == {Strip(cell[i]) : i \in 1..Len(cell)} \ {""}

\* for cell_value in all_id_cells
RECURSIVE ScanCells(_, _, _)
ScanCells(cells, header_skipped, ids) ==
    IF cells = <<>> THEN ids
    ELSE LET cell == Head(cells) IN
         IF CellIsEmpty(cell) THEN ScanCells(Tail(cells), header_skipped, ids)
         ELSE IF ~header_skipped /\ LooksLikeHeader(cell)
              THEN ScanCells(Tail(cells), TRUE, ids)
         ELSE ScanCells(Tail(cells), header_skipped, ids \cup IdsInCell(cell))

get_existing_exec_ids(cells) == ScanCells(cells, FALSE, {})

\* The column is read.
ReadIds ==
    /\ pc = "read_ids"
    /\ existing_ids' = get_existing_exec_ids(id_cells)
    /\ pc' = "request"
    /\ UNCHANGED <<all_results, executions, idx, open_positions, closed_trades,
                   processed_exec_ids_in_run, ledger, trade_ledger, earlier,
                   page_count, failure, sheet, added_count, bot, notifications,
                   id_cells, response,
                   worksheet>>

\* col_values raises: a warning is sent and the empty set is returned.
ReadIdsFails ==
    /\ pc = "read_ids"
    /\ existing_ids' = {}
    /\ Notify("warning", "request")
    /\ UNCHANGED <<all_results, executions, idx, open_positions, closed_trades,
                   processed_exec_ids_in_run, ledger, trade_ledger, earlier,
                   page_count, failure, sheet, added_count, bot, id_cells,
                   response,
                   worksheet>>

\* ------------------------------------------------ the pages of the source
\* The list of page `k`: one new record on each of the first MaxPages pages,
\* the last record again on every later page.
PageShapes == {sh \in FetchShapes : sh.execQty = 10}

PageData(k, sh, fetched) ==
    IF k <= MaxPages THEN <<ShapedExec(ExecIds[k], 1000 * k, sh)>>
    ELSE <<fetched[Len(fetched)]>>

\* The loop goes on to another request only after a page with records and a
\* nextPageCursor; every other response breaks.
ContinuesOnError(kind) == kind \in {"more", "error"}

Continues(kind) == kind = "more"

AfterResponse(kind) == IF Continues(kind) THEN "request" ELSE "fetch"

\* One pass of "while page_count < MAX_API_PAGES" up to the response.
Request ==
    /\ pc = "request"
    /\ page_count < MAX_API_PAGES
    /\ page_count' = page_count + 1

\* retCode 0, a non-empty list and a nextPageCursor: extend and go on.
PageWithCursor ==
    /\ Request
    /\ \E sh \in PageShapes :
          all_results' = all_results \o PageData(page_count + 1, sh, all_results)
    /\ response' = "more"
    /\ pc' = AfterResponse("more")
    /\ UNCHANGED <<executions, existing_ids, idx, open_positions, closed_trades,
                   processed_exec_ids_in_run, ledger, trade_ledger, earlier,
                   failure, sheet, added_count, bot, notifications, id_cells,
                   worksheet>>

\* retCode 0, a non-empty list and no nextPageCursor: extend and break.
LastPage ==
    /\ Request
    /\ \E sh \in PageShapes :
          all_results' = all_results \o PageData(page_count + 1, sh, all_results)
    /\ response' = "last"
    /\ pc' = AfterResponse("last")
    /\ UNCHANGED <<executions, existing_ids, idx, open_positions, closed_trades,
                   processed_exec_ids_in_run, ledger, trade_ledger, earlier,
                   failure, sheet, added_count, bot, notifications, id_cells,
                   worksheet>>

\* retCode 0 and an empty list: break.
EmptyPage ==
    /\ Request
    /\ response' = "empty"
    /\ pc' = AfterResponse("empty")
    /\ UNCHANGED <<all_results, executions, existing_ids, idx, open_positions,
                   closed_trades, processed_exec_ids_in_run, ledger, trade_ledger,
                   earlier, failure, sheet, added_count, bot, notifications,
                   id_cells,
                   worksheet>>

\* Any other response: log, notify if it is the first page, break; the code
\* after the loop still runs.
ErrorResponse ==
    /\ Request
    /\ failure' = "error"
    /\ response' = "error"
    /\ IF page_count' = 1
       THEN Notify("error", AfterResponse("error"))
       ELSE pc' = AfterResponse("error") /\ UNCHANGED notifications
    /\ UNCHANGED <<all_results, executions, existing_ids, idx, open_positions,
                   closed_trades, processed_exec_ids_in_run, ledger, trade_ledger,
                   earlier, sheet, added_count, bot, id_cells,
                   worksheet>>

\* get_executions raises: except Exception notifies and returns at once.
RequestRaises ==
    /\ Request
    /\ failure' = "exception"
    /\ response' = "exception"
    /\ executions' = FetchResult("exception", all_results)
    /\ Notify("error", IF executions' = <<>> THEN "finished" ELSE "parse")
    /\ UNCHANGED <<all_results, existing_ids, idx, open_positions,
                   closed_trades, processed_exec_ids_in_run, ledger, trade_ledger,
                   earlier, sheet, added_count, bot, id_cells,
                   worksheet>>

\* The loop condition fails: MAX_API_PAGES pages were requested.
PageLimit ==
    /\ pc = "request"
    /\ page_count >= MAX_API_PAGES
    /\ pc' = "fetch"
    /\ UNCHANGED <<all_results, executions, existing_ids, idx, open_positions,
                   closed_trades, processed_exec_ids_in_run, ledger, trade_ledger,
                   earlier, page_count, failure, sheet, added_count, bot,
                   notifications, id_cells, response,
                   worksheet>>

\* ------------------------------------------------ add_trades_to_sheet
\* The keys of COL_IDX, all of them keys of closed_trade_data, in the order
\* of the dictionary; entry_dt stands for entry_date and entry_time (columns
\* A and B), exit_dt for exit_date and exit_time.
FieldOrder ==
    <<"entry_dt", "exit_dt", "pair", "type", "entry_price_avg", "volume_coins",
      "commission_entry", "commission_exit", "exit_method", "exit_price_avg",
      "involved_exec_ids">>

Fields == {FieldOrder[i] : i \in 1..Len(FieldOrder)}

\* A row of the worksheet gives each field its cell: <<>> when the cell is
\* empty, <<value>> otherwise.
RowOf(trade) == [f \in Fields |-> <<trade[f]>>]

BlankRow == [f \in Fields |-> <<>>]

\* col_values(col): the cells of the column down to its last non-empty one.
ColValues(ws, f) ==
    LET filled == {r \in 1..Len(ws) : ws[r][f] # <<>>}
        last == IF filled = {} THEN 0
                ELSE CHOOSE r \in filled : \A q \in filled : q <= r
    IN [r \in 1..last |-> ws[r][f]]

\* next_row = len(col_a_values) + 1
NextRow(ws) == Len(ColValues(ws, "entry_dt")) + 1

\* updates: for each trade, in order, one cell update per key of COL_IDX at
\* (current_row, column); current_row += 1 after each trade.
Updates(trades, next_row) ==
    [n \in 1..(Len(trades) * Len(FieldOrder)) |->
        LET k == ((n - 1) \div Len(FieldOrder)) + 1
            f == FieldOrder[((n - 1) % Len(FieldOrder)) + 1]
        IN [row |-> next_row + k - 1, field |-> f, value |-> trades[k][f]]]

\* batch_update(updates): all the cell updates are applied in one request.
batch_update(ws, updates) ==
    LET rows == {Len(ws)} \cup {updates[n].row : n \in DOMAIN updates}
        last == CHOOSE r \in rows : \A q \in rows : q <= r
        Hits(r, f) == {n \in DOMAIN updates :
                          updates[n].row = r /\ updates[n].field = f}
    IN [r \in 1..last |->
          [f \in Fields |->
              IF Hits(r, f) # {}
              THEN <<updates[CHOOSE n \in Hits(r, f) :
                                 \A m \in Hits(r, f) : m <= n].value>>
              ELSE IF r <= Len(ws) THEN ws[r][f] ELSE <<>>]]

\* A trade written by an earlier run.
OldTrade ==
    parse_executions_to_trades(
        <<ShapedExec(ExecIds[5], 1000, [side |-> "Buy", execQty |-> 10, execPrice |-> 1]),
          ShapedExec(ExecIds[6], 2000, [side |-> "Sell", execQty |-> 10, execPrice |-> 1])>>,
        {})[1]

\* The worksheet after add_trades_to_sheet wrote the trades.
add_trades_to_sheet(ws, trades) ==
    batch_update(ws, Updates(trades, NextRow(ws)))

\* add_trades_to_sheet writes the trades; __main__ sends the summary.
AddTrades ==
    /\ pc = "done"
    /\ closed_trades # <<>>
    /\ sheet' = sheet \o closed_trades
    /\ worksheet' = add_trades_to_sheet(worksheet, closed_trades)
    /\ added_count' = Len(closed_trades)
    /\ Notify("summary", "finished")
    /\ UNCHANGED <<all_results, executions, existing_ids, idx, open_positions,
                   closed_trades, processed_exec_ids_in_run, ledger, trade_ledger,
                   earlier, page_count, failure, bot, id_cells, response>>

\* The sheet API raises: nothing is written, an error is sent, -1 is
\* returned.
AddTradesFails ==
    /\ pc = "done"
    /\ closed_trades # <<>>
    /\ added_count' = -1
    /\ Notify("error", "finished")
    /\ UNCHANGED <<all_results, executions, existing_ids, idx, open_positions,
                   closed_trades, processed_exec_ids_in_run, ledger, trade_ledger,
                   earlier, page_count, failure, sheet, bot, id_cells, response,
                   worksheet>>

\* if not trades_data: return 0; __main__ sends "no new closed trades".
NoTrades ==
    /\ pc = "done"
    /\ closed_trades = <<>>
    /\ added_count' = 0
    /\ Notify("info", "finished")
    /\ UNCHANGED <<all_results, executions, existing_ids, idx, open_positions,
                   closed_trades, processed_exec_ids_in_run, ledger, trade_ledger,
                   earlier, page_count, failure, sheet, bot, id_cells, response,
                   worksheet>>

\* connect_google_sheets and connect_bybit both return a handle.
Connect ==
    /\ pc = "start"
    /\ pc' = "read_ids"
    /\ UNCHANGED <<all_results, executions, existing_ids, idx, open_positions,
                   closed_trades, processed_exec_ids_in_run, ledger, trade_ledger,
                   earlier, page_count, failure, sheet, added_count, bot,
                   notifications, id_cells, response,
                   worksheet>>

\* The environment is not TESTNET or a connection fails: exit(1), after an
\* error message (`told`) or, when a setting or a key is missing, after a
\* log entry only.
ConnectFails ==
    /\ pc = "start"
    /\ \E told \in BOOLEAN :
          IF told THEN Notify("error", "exited")
          ELSE pc' = "exited" /\ UNCHANGED notifications
    /\ UNCHANGED <<all_results, executions, existing_ids, idx, open_positions,
                   closed_trades, processed_exec_ids_in_run, ledger, trade_ledger,
                   earlier, page_count, failure, sheet, added_count, bot,
                   id_cells, response,
                   worksheet>>

NextPages ==
    \/ Connect
    \/ ConnectFails
    \/ ReadIds
    \/ ReadIdsFails
    \/ PageWithCursor
    \/ LastPage
    \/ EmptyPage
    \/ ErrorResponse
    \/ RequestRaises
    \/ PageLimit
    \/ FetchReturn
    \/ ParseAll
    \/ AddTrades
    \/ AddTradesFails
    \/ NoTrades

\* SpecPages: the run of __main__ from the connections to the sheet, with
\* the bot configured or not, on a sheet without trades or with one trade
\* row below the header.
InitPages ==
    /\ pc = "start"
    /\ page_count = 0
    /\ failure = ""
    /\ response = ""
    /\ all_results = <<>>
    /\ existing_ids = {}
    /\ bot \in BOOLEAN
    /\ id_cells \in {<<>>, <<<<Part("Exec IDs", FALSE)>>,
                            <<Part(ExecIds[1], FALSE)>>>>}
    /\ InitLocals
    /\ worksheet = [r \in 1..Len(id_cells) |-> RowOf(OldTrade)]

SpecPages == InitPages /\ [][NextPages]_vars

\* SpecSink: the end of a run on a worksheet that holds up to MaxRows rows:
\* a row with all its cells filled, an empty row, or a row whose date cell
\* (column A) is empty while its other cells are filled.
SinkRows ==
    {RowOf(OldTrade), BlankRow, [RowOf(OldTrade) EXCEPT !["entry_dt"] = <<>>]}

InitSink ==
    /\ \E len \in 0..MaxSinkLen : \E shapes \in [1..len -> PageShapes] :
          all_results = FreshList(shapes)
    /\ existing_ids = {}
    /\ \E n \in 0..MaxRows : worksheet \in [1..n -> SinkRows]
    /\ InitFetched

NextSink ==
    \/ FetchReturn
    \/ ParseAll
    \/ AddTrades
    \/ AddTradesFails
    \/ NoTrades

SpecSink == InitSink /\ [][NextSink]_vars

\* One pass of the loop of fetch_bybit_executions, or its exit.
FetchLoop ==
    \/ PageWithCursor
    \/ LastPage
    \/ EmptyPage
    \/ ErrorResponse
    \/ RequestRaises
    \/ PageLimit

\* SpecPagesFair: the same run, in which every call of get_executions
\* returns or raises, so the loop does not stop half-way.
SpecPagesFair == SpecPages /\ WF_vars(FetchLoop)

\* SpecSeen: the loop step by step, with some IDs already in the sheet.
InitSeen ==
    /\ \E len \in 0..MaxSeenLen : \E shapes \in [1..len -> LeanShapes] :
          all_results = FreshList(shapes)
    /\ existing_ids \in SUBSET {ExecIds[1], ExecIds[2]}
    /\ InitRun

SpecSeen == InitSeen /\ [][Next]_vars

\* SpecMulti: the loop step by step on executions of two instruments.
Symbols == {"SOLUSDT", "BTCUSDT"}

MultiShapes == {sh \in LeanShapes : sh.execQty <= 20}

InitMulti ==
    /\ \E len \in 0..MaxMultiLen :
          \E shapes \in [1..len -> MultiShapes] :
            \E syms \in [1..len -> Symbols] :
              all_results =
                [i \in 1..len |->
                    [ShapedExec(ExecIds[i], 1000 * i, shapes[i])
                        EXCEPT !.symbol = syms[i]]]
    /\ existing_ids = {}
    /\ InitRun

SpecMulti == InitMulti /\ [][Next]_vars

\* SpecFaults: the loop step by step on lists that may hold records with a
\* null or a non-numeric decimal field, and whose records from some place on
\* carry an execTime that fromtimestamp rejects.
NextFaults ==
    \/ Next
    \/ DropPosition
    \/ DropAndFlip
    \/ RaiseInvalidOperation

FaultShapes ==
    {[side |-> m.side, execQty |-> m.execQty, execPrice |-> m.execPrice,
      decimals |-> "ok"] : m \in MultiShapes}
      \cup {[side |-> "Buy", execQty |-> 10, execPrice |-> 1, decimals |-> d] :
                d \in {"null", "text"}}

InitFaults ==
    /\ \E len \in 0..MaxFaultLen :
          \E shapes \in [1..len -> FaultShapes] :
            \E late \in 1..(len + 1) :
              all_results =
                [i \in 1..len |->
                    [ShapedExec(ExecIds[i],
                                IF i < late THEN 1000 * i ELSE TS_LIMIT + 1000 * i,
                                shapes[i])
                        EXCEPT !.decimals = shapes[i].decimals]]
    /\ existing_ids = {}
    /\ InitRun

SpecFaults == InitFaults /\ [][NextFaults]_vars

\* ------------------------------------------------------------ properties
RECURSIVE SumQty(_)
SumQty(fills) ==
    IF fills = <<>> THEN 0 ELSE fills[1].qty + SumQty(Tail(fills))

RECURSIVE SumValue(_)
SumValue(fills) ==
    IF fills = <<>> THEN 0 ELSE fills[1].qty * fills[1].price + SumValue(Tail(fills))

RECURSIVE SumFees(_)
SumFees(fills) ==
    IF fills = <<>> THEN RInt(0) ELSE RAdd(fills[1].fee, SumFees(Tail(fills)))

Last(seq) == seq[Len(seq)]

\* Every execution ID listed in the involved_exec_ids of a list of trades.
InvolvedIds(trades) ==
    UNION {{t.involved_exec_ids[i] : i \in 1..Len(t.involved_exec_ids)} :
             t \in {trades[k] : k \in 1..Len(trades)}}

\* avg * closedQuantity against a sum of quantity * price, within half a
\* price quantum per unit of quantity.  avg counts 1/PRICE_QUANT, volume
\* counts QTY_QUANT quantity units.
AvgMatches(avg, volume, value) ==
    2 * Abs(avg * volume * QTY_QUANT - PRICE_QUANT * value) <= volume * QTY_QUANT

\* C1: idempotence.  When the run has returned T1, a second run on the same
\* fills with the seen-set extended by every ID involved in T1 returns no
\* trade.
C1_SecondRunEmpty ==
    pc = "done" =>
        parse_executions_to_trades(
            executions, existing_ids \cup InvolvedIds(closed_trades)) = <<>>

\* C2 (as stated): the reconciler alone returns, for the fills in the order
\* they were fetched, the trades it returns for the timestamp-ascending order.
C2_ReconcilerSortsItself ==
    pc = "fetch" =>
        parse_executions_to_trades(all_results, existing_ids)
            = parse_executions_to_trades(SortByTime(all_results), existing_ids)

PermutationsOf(list) ==
    {[i \in 1..Len(list) |-> list[order[i]]] : order \in Permutations(1..Len(list))}

\* C2 (amended): for fills of pairwise distinct timestamps, the trades of a
\* run, which sorts in fetch_bybit_executions and then reconciles, are the
\* trades that sorting and reconciling any permutation of the fetched list
\* gives.
C2_PipelineOrderIndependent ==
    pc = "done" =>
        \A other \in PermutationsOf(all_results) :
            closed_trades
                = parse_executions_to_trades(SortByTime(other), existing_ids)

\* C2 witness: a run on a list fetched out of time order has emitted a trade.
C2_Witness ==
    /\ pc = "done"
    /\ closed_trades # <<>>
    /\ \E i \in 1..Len(all_results) - 1 :
          all_results[i].execTime > all_results[i + 1].execTime

\* C3: for every emitted trade, averageEntryPrice * closedQuantity equals the
\* sum of quantity * price over the entry fills of its position, within
\* rounding.
C3_AvgEntryPrice ==
    \A k \in 1..Len(closed_trades) :
        AvgMatches(closed_trades[k].entry_price_avg, closed_trades[k].volume_coins,
                   SumValue(trade_ledger[k].entries))

\* C4: for every emitted trade, averageExitPrice * closedQuantity equals the
\* sum over its exit fills of (quantity applied to the position * price),
\* within rounding.
C4_AvgExitPrice ==
    \A k \in 1..Len(closed_trades) :
        AvgMatches(closed_trades[k].exit_price_avg, closed_trades[k].volume_coins,
                   SumValue(trade_ledger[k].exits))

\* C4 witness: a trade closed by two exit fills at different prices.
C4_Witness ==
    \E k \in 1..Len(closed_trades) :
        /\ Len(trade_ledger[k].exits) >= 2
        /\ trade_ledger[k].exits[1].price # trade_ledger[k].exits[2].price

\* C5: for every emitted trade, closedQuantity is the total quantity closed
\* across all exit fills of its position.
C5_VolumeIsAllExits ==
    \A k \in 1..Len(closed_trades) :
        closed_trades[k].volume_coins
            = Quantize(<<SumQty(trade_ledger[k].exits), QTY_QUANT>>, 1)

\* C6: for every emitted trade, closedQuantity does not exceed the sum of the
\* entry quantities of its position (the residual of a flip counts as entry).
C6_VolumeAtMostEntries ==
    \A k \in 1..Len(closed_trades) :
        closed_trades[k].volume_coins
            <= Quantize(<<SumQty(trade_ledger[k].entries), QTY_QUANT>>, 1)

\* C6 witness: a trade of a position seeded by a flip, closed at exactly its
\* entry quantity.
C6_Witness ==
    \E k \in 2..Len(closed_trades) :
        /\ closed_trades[k].involved_exec_ids[1] = Last(closed_trades[k - 1].involved_exec_ids)
        /\ closed_trades[k].volume_coins
             = Quantize(<<SumQty(trade_ledger[k].entries), QTY_QUANT>>, 1)

\* The next execution is valid, unseen, and on the opposite side of an open
\* position that is smaller than it by more than the tolerance.
FlipDue ==
    /\ pc = "parse"
    /\ idx <= Len(executions)
    /\ ~InvalidCore(executions[idx])
    /\ executions[idx].execId # ""
    /\ executions[idx].execId \notin existing_ids \cup processed_exec_ids_in_run
    /\ executions[idx].symbol \in DOMAIN open_positions
    /\ executions[idx].side # open_positions[executions[idx].symbol].side
    /\ executions[idx].execQty - open_positions[executions[idx].symbol].total_qty
         > QTY_TOLERANCE

\* C7: the step that processes a flipping fill F against a position of
\* quantity Q appends exactly one trade, of closedQuantity Q, and leaves a
\* position of the fill's side and of quantity F - Q.
C7_FlipStep ==
    [][FlipDue =>
         LET rec == executions[idx]
             pos == open_positions[rec.symbol]
         IN /\ Len(closed_trades') = Len(closed_trades) + 1
            /\ SubSeq(closed_trades', 1, Len(closed_trades)) = closed_trades
            /\ Last(closed_trades').volume_coins = Quantize(<<pos.total_qty, QTY_QUANT>>, 1)
            /\ Last(closed_trades').pair = rec.symbol
            /\ DOMAIN open_positions' = DOMAIN open_positions
            /\ open_positions'[rec.symbol].side = rec.side
            /\ open_positions'[rec.symbol].total_qty = rec.execQty - pos.total_qty]_vars

\* C7 witness: a Long of 10 met a Sell of 30; the trade of 10 is emitted and a
\* Short of 20 is open.
C7_Witness ==
    /\ closed_trades # <<>>
    /\ Last(closed_trades).type = "Long"
    /\ Last(closed_trades).volume_coins = 1
    /\ "SOLUSDT" \in DOMAIN open_positions
    /\ open_positions["SOLUSDT"].side = "Sell"
    /\ open_positions["SOLUSDT"].total_qty = 20
    /\ open_positions["SOLUSDT"].entry_exec_ids = <<Last(Last(closed_trades).involved_exec_ids)>>

\* C8: an entry fill of quantity q at p_in followed by one opposite fill of
\* quantity q at p_out with orderType T yields exactly one trade: that
\* instrument, Long for a Buy entry (Short for Sell), closedQuantity q,
\* averageEntryPrice p_in, averageExitPrice p_out, exitMethod T.
C8_SimpleFullClose ==
    (/\ pc = "parse"
     /\ idx = 3
     /\ ~InvalidCore(executions[1])
     /\ ~InvalidCore(executions[2])
     /\ executions[1].side # executions[2].side
     /\ executions[1].execQty = executions[2].execQty)
    => /\ Len(closed_trades) = 1
       /\ closed_trades[1].pair = executions[1].symbol
       /\ closed_trades[1].type = (IF executions[1].side = "Buy" THEN "Long" ELSE "Short")
       /\ closed_trades[1].volume_coins = Quantize(<<executions[1].execQty, QTY_QUANT>>, 1)
       /\ closed_trades[1].entry_price_avg = executions[1].execPrice * PRICE_QUANT
       /\ closed_trades[1].exit_price_avg = executions[2].execPrice * PRICE_QUANT
       /\ closed_trades[1].exit_method = executions[2].orderType

\* C9: while a position has had no opposite-side fill, its totalQuantity is
\* the sum of the quantities of its entry fills, its totalEntryValue the sum
\* of quantity * price, and its totalEntryFees the sum of their fees.
C9_EntriesAccumulate ==
    \A sym \in DOMAIN open_positions :
        open_positions[sym].exit_exec_ids = <<>> =>
            /\ open_positions[sym].total_qty = SumQty(ledger[sym].entries)
            /\ open_positions[sym].total_entry_value = RInt(SumValue(ledger[sym].entries))
            /\ open_positions[sym].total_entry_fees = SumFees(ledger[sym].entries)

\* C9 witness: Buy 10 @ 1 then Buy 20 @ 2 gives quantity 30 and value 50.
C9_Witness ==
    /\ "SOLUSDT" \in DOMAIN open_positions
    /\ open_positions["SOLUSDT"].exit_exec_ids = <<>>
    /\ Len(open_positions["SOLUSDT"].entry_exec_ids) = 2
    /\ open_positions["SOLUSDT"].total_qty = 30
    /\ open_positions["SOLUSDT"].total_entry_value = RInt(50)
    /\ open_positions["SOLUSDT"].total_entry_fees = RInt(3)

\* The list without the records that repeat the ID of an earlier valid record.
WithoutRedelivered(list) ==
    SelectSeq(
        [i \in 1..Len(list) |->
            [rec |-> list[i],
             again |-> \E j \in 1..(i - 1) :
                          /\ list[j].execId = list[i].execId
                          /\ ~InvalidCore(list[j])]],
        LAMBDA item : ~item.again)

Records(items) == [i \in 1..Len(items) |-> items[i].rec]

\* C10: the trades and the positions of a batch are those of the batch with
\* every later occurrence of an already consumed execution ID removed.
C10_RedeliveryIgnored ==
    pc = "done" =>
        LET clean == RunFrom(EmptyRun, Records(WithoutRedelivered(executions)),
                             existing_ids)
        IN /\ closed_trades = clean.closed_trades
           /\ open_positions = clean.open_positions

\* C10 witness: a batch that delivered a valid record's ID twice has emitted a
\* trade.
C10_Witness ==
    /\ pc = "done"
    /\ closed_trades # <<>>
    /\ \E i \in 1..Len(executions) : \E j \in 1..(i - 1) :
          /\ executions[j].execId = executions[i].execId
          /\ ~InvalidCore(executions[j])
          /\ ~InvalidCore(executions[i])

\* The IDs a position carries.
PositionIds(positions) ==
    UNION {{positions[sym].entry_exec_ids[i] :
                i \in 1..Len(positions[sym].entry_exec_ids)}
           \cup {positions[sym].exit_exec_ids[i] :
                i \in 1..Len(positions[sym].exit_exec_ids)} :
           sym \in DOMAIN positions}

\* C11: a step on an execution whose ID is already in the sheet changes no
\* position and no trade, and no trade and no position ever carries such an
\* ID.
C11_SeenFillsIgnored ==
    [][/\ (pc = "parse" /\ idx <= Len(executions)
            /\ executions[idx].execId \in existing_ids)
           => UNCHANGED <<open_positions, closed_trades>>
       /\ InvolvedIds(closed_trades') \cap existing_ids = {}
       /\ PositionIds(open_positions') \cap existing_ids = {}]_vars

\* C11 witness: a valid execution with an ID of the sheet was passed over and
\* the invocation still emitted a trade.
C11_Witness ==
    /\ pc = "done"
    /\ closed_trades # <<>>
    /\ \E i \in 1..Len(executions) :
          /\ executions[i].execId \in existing_ids
          /\ ~InvalidCore(executions[i])

\* The current record is an execution of `sym` on the side opposite to the
\* open position of `sym`.
OppositeFillOf(sym) ==
    /\ pc = "parse"
    /\ idx <= Len(executions)
    /\ executions[idx].symbol = sym
    /\ sym \in DOMAIN open_positions
    /\ executions[idx].side # open_positions[sym].side

\* C12: an open position never has a negative total_qty, and the position of
\* an instrument shrinks or leaves the dictionary only in a step on an
\* opposite-side execution of that instrument.  (The dictionary is keyed by
\* symbol, so it holds at most one position per instrument.)
C12_PositionQuantity ==
    [][/\ \A sym \in DOMAIN open_positions' : open_positions'[sym].total_qty >= 0
       /\ \A sym \in DOMAIN open_positions :
            (\/ sym \notin DOMAIN open_positions'
             \/ open_positions'[sym].total_qty < open_positions[sym].total_qty)
            => OppositeFillOf(sym)]_vars

\* C12 witness: both instruments have an open position and one of them was
\* reduced by an opposite-side execution.
C12_Witness ==
    /\ DOMAIN open_positions = Symbols
    /\ \E sym \in Symbols : open_positions[sym].exit_exec_ids # <<>>

\* The current record is applied to the position of its symbol: its ID is new
\* and its fields parse to valid values.
Applied(rec) ==
    /\ ~IdSkipped(rec, existing_ids, processed_exec_ids_in_run)
    /\ rec.decimals = "ok"
    /\ ~InvalidCore(rec)

\* The current record is an applied opposite-side execution whose quantity
\* brings total_qty of the open position within QTY_TOLERANCE of zero.
CloseDue ==
    /\ pc = "parse"
    /\ idx <= Len(executions)
    /\ Applied(executions[idx])
    /\ OppositeFillOf(executions[idx].symbol)
    /\ open_positions[executions[idx].symbol].total_qty - executions[idx].execQty
          <= QTY_TOLERANCE

\* fromtimestamp rejects the first entry time of the position or the latest
\* exit time, the current record's included.
FormatFailureDue ==
    LET pos == open_positions[executions[idx].symbol] IN
    \/ pos.first_entry_ts_ms >= TS_LIMIT
    \/ pos.last_exit_ts_ms >= TS_LIMIT
    \/ executions[idx].execTime >= TS_LIMIT

\* After the step the dictionary no longer holds the position `pos` of `rec`'s
\* symbol: the symbol has no position, or the one the rest of `rec` opened.
PositionGone(rec) ==
    \/ rec.symbol \notin DOMAIN open_positions'
    \/ /\ open_positions'[rec.symbol].entry_exec_ids = <<rec.execId>>
       /\ open_positions'[rec.symbol].side = rec.side

\* C13: a step appends at most one trade and keeps the earlier ones; it
\* appends one exactly when an opposite-side execution brings the position
\* within QTY_TOLERANCE of zero and the trade can be formatted, and that
\* step takes the position out of the dictionary.
C13_CloseEmitsOneTrade ==
    [][/\ Len(closed_trades') <= Len(closed_trades) + 1
       /\ SubSeq(closed_trades', 1, Len(closed_trades)) = closed_trades
       /\ (CloseDue /\ ~FormatFailureDue)
            => /\ Len(closed_trades') = Len(closed_trades) + 1
               /\ PositionGone(executions[idx])
       /\ Len(closed_trades') > Len(closed_trades)
            => CloseDue /\ ~FormatFailureDue]_vars

\* C13 witness: two positions were closed, each by one step that appended one
\* trade, and nothing is open.
C13_Witness ==
    /\ Len(closed_trades) = 2
    /\ open_positions = <<>>
    /\ pc = "parse"

\* The records of the list whose fields are missing, invalid, null or not
\* numbers.
Malformed(rec) == rec.decimals # "ok" \/ InvalidCore(rec)

WellFormed(list) == SelectSeq(list, LAMBDA rec : ~Malformed(rec))

\* C15: the invocation never leaves the loop by an exception, and it returns
\* the trades and keeps the positions of the list without its malformed
\* records.
C15_MalformedContained ==
    /\ pc # "raised"
    /\ pc = "done" =>
         LET clean == RunFrom(EmptyRun, WellFormed(executions), existing_ids)
         IN /\ closed_trades = clean.closed_trades
            /\ open_positions = clean.open_positions

\* C16: when the trade of a closing execution cannot be formatted, the step
\* appends nothing, takes the position out of the dictionary, opens the
\* opposite position with the rest of the execution if there is one, and
\* the loop goes on to the next record.
C16_FormatFailureContained ==
    [][(CloseDue /\ FormatFailureDue)
        => LET rec == executions[idx]
               pos == open_positions[rec.symbol]
           IN /\ closed_trades' = closed_trades
              /\ PositionGone(rec)
              /\ (rec.execQty - pos.total_qty > QTY_TOLERANCE)
                   => /\ rec.symbol \in DOMAIN open_positions'
                      /\ open_positions'[rec.symbol].total_qty
                           = rec.execQty - pos.total_qty
              /\ (rec.execQty - pos.total_qty <= QTY_TOLERANCE)
                   => rec.symbol \notin DOMAIN open_positions'
              /\ pc' = "parse"
              /\ idx' = idx + 1]_vars

\* C16 witness: the position of an earlier record was dropped without a
\* trade, and a later record of the list opened a position.
C16_Witness ==
    /\ pc = "done"
    /\ \E j \in 1..Len(executions) : \E i \in 1..(j - 1) :
          /\ executions[i].execId \in processed_exec_ids_in_run
          /\ executions[i].execId \notin InvolvedIds(closed_trades)
          /\ executions[i].execId \notin PositionIds(open_positions)
          /\ executions[j].execId \in PositionIds(open_positions)

\* C14: when the invocation has returned, every position still in the
\* dictionary is above QTY_TOLERANCE and shares no execution with a returned
\* trade except the flip execution that closed the one and opened the other;
\* each returned trade was appended by a step that brought its position
\* within QTY_TOLERANCE of zero.
C14_OpenPositionsNotReported ==
    pc = "done" =>
        /\ \A sym \in DOMAIN open_positions :
              LET pos == open_positions[sym] IN
              /\ pos.total_qty > QTY_TOLERANCE
              /\ \A k \in 1..Len(closed_trades) :
                    \A id \in InvolvedIds(<<closed_trades[k]>>) \cap PositionIds(open_positions) :
                        /\ id = Last(closed_trades[k].involved_exec_ids)
                        /\ \E s2 \in DOMAIN open_positions :
                              open_positions[s2].entry_exec_ids[1] = id
        /\ Len(closed_trades) = Len(trade_ledger)
        /\ \A k \in 1..Len(trade_ledger) :
              SumQty(trade_ledger[k].entries) - SumQty(trade_ledger[k].exits)
                  <= QTY_TOLERANCE

\* C14 witness: the invocation returned a trade of one instrument while the
\* position of the other instrument is still open.
C14_Witness ==
    /\ pc = "done"
    /\ closed_trades # <<>>
    /\ \E sym \in DOMAIN open_positions :
          \A k \in 1..Len(closed_trades) : closed_trades[k].pair # sym

\* C17: no step of the invocation changes existing_ids or the list of
\* executions it was given.
C17_InputsNotMutated ==
    [][pc = "parse" => /\ existing_ids' = existing_ids
                       /\ executions' = executions]_vars

\* C17 witness: an invocation given a non-empty existing_ids consumed
\* executions and returned a trade.
C17_Witness ==
    /\ pc = "done"
    /\ existing_ids # {}
    /\ processed_exec_ids_in_run # {}
    /\ closed_trades # <<>>

IdsOf(list) == {list[i].execId : i \in 1..Len(list)}

\* The trades of the records fetched so far.
TradesFetched ==
    parse_executions_to_trades(SortByTime(all_results), existing_ids)

\* After a failed page request nothing fetched reaches the invocation or the
\* sheet, and no page is requested any more.
PartialDiscarded ==
    /\ pc \notin {"request", "parse", "done"}
    /\ executions = <<>>
    /\ sheet = <<>>

\* After a failed page request no page is requested any more, and once the
\* run has finished the records of the pages before the failing one were
\* handed to the invocation and, unless the sheet write failed, their trades
\* are in the sheet.
PartialKept ==
    /\ pc # "request"
    /\ pc = "finished" =>
         /\ \A k \in 1..(page_count - 1) :
               k <= MaxPages => ExecIds[k] \in IdsOf(executions)
         /\ added_count # -1 => sheet = TradesFetched

\* C19 as claimed: after any failed page request, an error response or an
\* exception, the records of the earlier pages are neither handed to the
\* invocation nor written to the sheet.
C19_FailureDiscardsPartial == failure # "" => PartialDiscarded

\* C19 amended: that holds when the request raised an exception; after an
\* error response the fetch stops and returns the records of the earlier
\* pages sorted, and a non-empty list is handed to the invocation.
C19_ExceptionDiscardsPartial ==
    /\ failure = "exception" => PartialDiscarded
    /\ (failure = "error" /\ pc # "fetch")
         => /\ pc # "request"
            /\ executions = SortByTime(all_results)
            /\ (executions # <<>> /\ pc = "finished") => idx > Len(executions)

\* C19 witness: a request raised after the earlier pages had delivered the
\* records of a trade, and the run finished.
C19_Witness ==
    /\ failure = "exception"
    /\ pc = "finished"
    /\ TradesFetched # <<>>

\* C20 as claimed: after any failed page request the records of the earlier
\* pages are still reconciled and their trades written.
C20_FailureKeepsPartial == failure # "" => PartialKept

\* C20 amended: that holds when the failed request returned an error
\* response; after an exception nothing fetched is reconciled (C19).
C20_ErrorResponseKeepsPartial ==
    /\ failure = "error" => PartialKept
    /\ failure = "exception" => pc # "request" /\ executions = <<>>

\* C20 witness: the third page returned an error response and the trade of
\* the first two pages is in the sheet.
C20_Witness ==
    /\ failure = "error"
    /\ pc = "finished"
    /\ page_count = 3
    /\ sheet # <<>>

\* ------------------------------------------------ claims C21..C30
StopResponses == {"last", "empty", "error", "exception"}

\* C21: fetch_bybit_executions issues at most MAX_API_PAGES page requests,
\* issues no request after a page that was empty, had no nextPageCursor or
\* was not a success, and always leaves its loop.
C21_PaginationTerminates ==
    /\ [](page_count <= MAX_API_PAGES)
    /\ [][(response \in StopResponses) => (page_count' = page_count)]_vars
    /\ (pc = "request") ~> (pc # "request")

\* The ceiling ended the loop: every one of MAX_API_PAGES pages had a cursor.
C21_Witness ==
    /\ pc = "fetch"
    /\ page_count = MAX_API_PAGES
    /\ response = "more"

\* SpecIds: get_existing_exec_ids on a column AC whose first row is empty, a
\* header with "id" in it or a header without, followed by data cells of one
\* or two IDs, with and without spaces, with and without a trailing comma.
HeaderCells == {EmptyCell, <<Part("Exec IDs", FALSE)>>, <<Part("Trades", FALSE)>>}

DataCells ==
    {EmptyCell,
     <<Part(ExecIds[1], FALSE)>>,
     <<Part(ExecIds[1], TRUE), Part(ExecIds[2], TRUE)>>,
     <<Part(ExecIds[3], FALSE), Part("", FALSE)>>,
     <<Part("bid3", FALSE)>>,
     <<Part("bid3", TRUE), Part(ExecIds[2], FALSE)>>}

InitIds ==
    /\ pc = "read_ids"
    /\ \E header \in HeaderCells :
          \E len \in 0..MaxCells :
            \E data \in [1..len -> DataCells] :
              id_cells = <<header>> \o data
    /\ bot = TRUE
    /\ page_count = 0
    /\ failure = ""
    /\ response = ""
    /\ all_results = <<>>
    /\ existing_ids = {}
    /\ worksheet = <<>>
    /\ InitLocals

NextIds ==
    \/ ReadIds
    \/ ReadIdsFails

SpecIds == InitIds /\ [][NextIds]_vars

\* The column was read without an error.
IdsRead == pc = "request" /\ notifications = <<>>

\* C22: every non-empty, trimmed ID of every data cell (the cells below the
\* first row) of column AC is in the set get_existing_exec_ids returned.
C22_DataCellsFlattened ==
    IdsRead =>
        \A row \in 2..Len(id_cells) :
            \A i \in 1..Len(id_cells[row]) :
                id_cells[row][i].core # "" => id_cells[row][i].core \in existing_ids

\* C23: a run with the notification channel configured never sends two
\* messages, and a run that completed has sent exactly one.
C23_OneNotificationPerRun ==
    bot =>
        /\ Len(notifications) <= 1
        /\ pc = "finished" => Len(notifications) = 1

\* The two halves of C23 taken apart, to tell which runs break which.
NeverTwoNotifications == bot => Len(notifications) <= 1
CompletedRunNotified == bot /\ pc = "finished" => Len(notifications) >= 1

\* What a finished run leaves in the sheet, from what the sources delivered:
\* nothing if nothing was fetched or the write failed, else the trades of
\* the fetched records.
SheetWrites ==
    IF executions = <<>> \/ added_count = -1 THEN <<>>
    ELSE parse_executions_to_trades(executions, existing_ids)

\* C24: sending a notification never raises and never stops the run, with
\* the bot configured or not; without a bot nothing is sent; and in both
\* cases the finished run reconciled the records the fetch returned against
\* the IDs read from the sheet and wrote exactly their trades.
C24_NotificationNonInterfering ==
    /\ pc # "raised"
    /\ ~bot => notifications = <<>>
    /\ pc = "finished" =>
         /\ existing_ids \in {get_existing_exec_ids(id_cells), {}}
         /\ executions = FetchResult(failure, all_results)
         /\ sheet = SheetWrites

\* C24 witness: a run without a bot reached the summary after writing a
\* trade, and sent nothing.
C24_Witness ==
    /\ ~bot
    /\ pc = "finished"
    /\ sheet # <<>>
    /\ added_count > 0
    /\ notifications = <<>>

\* The first row after the rows that have a value in column A.
FirstRowAfterDates(ws) ==
    LET dated == {r \in 1..Len(ws) : ws[r]["entry_dt"] # <<>>}
    IN IF dated = {} THEN 1
       ELSE 1 + CHOOSE r \in dated : \A q \in dated : q <= r

\* The k-th trade of the run is, whole, in row first + k - 1, each trade in
\* a row of its own; a write that failed or had nothing to write changed
\* nothing.
TradesInOwnRows ==
    /\ added_count' > 0 =>
         \A k \in 1..Len(closed_trades) :
            /\ FirstRowAfterDates(worksheet) + k - 1 <= Len(worksheet')
            /\ worksheet'[FirstRowAfterDates(worksheet) + k - 1]
                 = RowOf(closed_trades[k])
    /\ added_count' <= 0 => worksheet' = worksheet

\* The rows that had a value in column A are as they were.
DatedRowsKept ==
    \A r \in 1..Len(worksheet) :
        worksheet[r]["entry_dt"] # <<>> => worksheet'[r] = worksheet[r]

\* add_trades_to_sheet on rows with a value in column A only.
SinkKeepsDatedRows == [][pc = "done" => TradesInOwnRows /\ DatedRowsKept]_vars

\* C25: add_trades_to_sheet writes the k-th trade, all its fields, into row
\* (first row after the column-A data) + k - 1, overwrites no row of the
\* worksheet that holds data, and writes all the trades or nothing.
C25_RowIntegrity ==
    [][pc = "done" =>
          /\ TradesInOwnRows
          /\ \A r \in 1..Len(worksheet) :
                worksheet[r] # BlankRow => worksheet'[r] = worksheet[r]]_vars

\* The next execution is valid, unseen, and on the opposite side of an open
\* position that is larger than it by more than the tolerance.
PartialCloseDue ==
    /\ pc = "parse"
    /\ idx <= Len(executions)
    /\ ~InvalidCore(executions[idx])
    /\ executions[idx].execId # ""
    /\ executions[idx].execId \notin existing_ids \cup processed_exec_ids_in_run
    /\ executions[idx].symbol \in DOMAIN open_positions
    /\ executions[idx].side # open_positions[executions[idx].symbol].side
    /\ open_positions[executions[idx].symbol].total_qty - executions[idx].execQty
         > QTY_TOLERANCE

\* C26: the step that processes a partially closing fill of quantity F
\* leaves the position open with quantity Q - F and with total_entry_value
\* and total_entry_fees in the same ratio to the quantity as before
\* (value' * Q = value * Q', and the same for the fees).
C26_PartialCloseKeepsAvgEntry ==
    [][PartialCloseDue =>
         LET rec == executions[idx]
             pos == open_positions[rec.symbol]
         IN /\ rec.symbol \in DOMAIN open_positions'
            /\ LET after == open_positions'[rec.symbol]
               IN /\ after.total_qty = pos.total_qty - rec.execQty
                  /\ RMul(after.total_entry_value, RInt(pos.total_qty))
                       = RMul(pos.total_entry_value, RInt(after.total_qty))
                  /\ RMul(after.total_entry_fees, RInt(pos.total_qty))
                       = RMul(pos.total_entry_fees, RInt(after.total_qty))]_vars

\* C26 witness: entries of 10 at price 1 and 20 at price 2 (value 50) were
\* followed by an exit of 10: 20 remain, with value 100/3, the same average of 5/3.
C26_Witness ==
    /\ "SOLUSDT" \in DOMAIN open_positions
    /\ open_positions["SOLUSDT"].exit_exec_ids # <<>>
    /\ Len(open_positions["SOLUSDT"].entry_exec_ids) = 2
    /\ open_positions["SOLUSDT"].total_qty = 20
    /\ open_positions["SOLUSDT"].total_entry_value = <<100, 3>>

\* C27: the commission_entry of every emitted trade is the share of the
\* entry fees of its position that falls to the quantity closed by the
\* closing fill; for a position closed by one fill of its full quantity,
\* the sum of the fees of its entry fills.
C27_EntryFeesReconstructed ==
    \A k \in 1..Len(closed_trades) :
        LET led == trade_ledger[k]
            share == Rat(Last(led.exits).qty, SumQty(led.entries))
        IN closed_trades[k].commission_entry
             = Quantize(RMul(SumFees(led.entries), share), PRICE_QUANT)

\* C28: the position left by the step that processes a flipping fill is
\* seeded from the fill alone: its side, the residual quantity F - Q, the
\* residual at the fill's price, the fill's fee in the proportion
\* residual / F, the fill's timestamp as first and last entry, the fill's ID
\* as only entry ID, and empty exit accumulators.
C28_FlipResidualSeeding ==
    [][FlipDue =>
         LET rec == executions[idx]
             residual == rec.execQty - open_positions[rec.symbol].total_qty
         IN /\ rec.symbol \in DOMAIN open_positions'
            /\ open_positions'[rec.symbol] =
                 [side |-> rec.side,
                  total_qty |-> residual,
                  total_entry_value |-> RInt(residual * rec.execPrice),
                  total_entry_fees |-> Rat(rec.execFee * residual, rec.execQty),
                  first_entry_ts_ms |-> rec.execTime,
                  last_entry_ts_ms |-> rec.execTime,
                  entry_exec_ids |-> <<rec.execId>>,
                  accum_exit_value |-> 0,
                  accum_exit_fees |-> 0,
                  exit_exec_ids |-> <<>>,
                  last_exit_ts_ms |-> 0,
                  last_exit_order_type |-> ""]]_vars

\* C28 witness: a Long of 10 met a Sell of 30 at price 2 with fee 2: the
\* Short of 20 holds value 40 and fees 4/3, and the Long's exit is in the
\* emitted trade only.
C28_Witness ==
    /\ "SOLUSDT" \in DOMAIN open_positions
    /\ open_positions["SOLUSDT"].side = "Sell"
    /\ open_positions["SOLUSDT"].total_qty = 20
    /\ open_positions["SOLUSDT"].total_entry_value = <<40, 1>>
    /\ open_positions["SOLUSDT"].total_entry_fees = <<4, 3>>
    /\ open_positions["SOLUSDT"].exit_exec_ids = <<>>
    /\ Len(closed_trades) = 1
    /\ closed_trades[1].exit_method = "TakeProfit"

\* C29: in every step, an instrument that has a position before and after
\* the step has it on the same side, unless the step processed an
\* opposite-side fill larger than the position: then the old position was
\* closed into a trade and the one recorded after the step is a new one,
\* opened from the residual of that fill.
C29_SideChangesOnlyByFlip ==
    [][\A sym \in DOMAIN open_positions \cap DOMAIN open_positions' :
          open_positions'[sym].side # open_positions[sym].side =>
              /\ OppositeFillOf(sym)
              /\ executions[idx].execQty - open_positions[sym].total_qty
                   > QTY_TOLERANCE
              /\ Len(closed_trades') = Len(closed_trades) + 1
              /\ Last(closed_trades').pair = sym
              /\ open_positions'[sym].side = executions[idx].side
              /\ open_positions'[sym].entry_exec_ids = <<executions[idx].execId>>
              /\ open_positions'[sym].total_qty
                   = executions[idx].execQty - open_positions[sym].total_qty]_vars

\* C29 witness: an instrument whose Long was closed by a larger Sell holds a
\* Short opened by that fill, while the other instrument's position is still
\* open.
C29_Witness ==
    \E sym \in Symbols, other \in Symbols :
        /\ sym # other
        /\ DOMAIN open_positions = Symbols
        /\ open_positions[sym].side = "Sell"
        /\ closed_trades # <<>>
        /\ Last(closed_trades).pair = sym
        /\ Last(closed_trades).type = "Long"
        /\ open_positions[sym].entry_exec_ids
             = <<Last(Last(closed_trades).involved_exec_ids)>>
        /\ open_positions[other].total_qty > 0

\* C30: the exit_method of every emitted trade is the orderType of the last
\* exit fill applied to its position, the fill that closed it.
C30_ExitMethodIsLastExitType ==
    \A k \in 1..Len(closed_trades) :
        /\ trade_ledger[k].exits # <<>>
        /\ closed_trades[k].exit_method = Last(trade_ledger[k].exits).type
        /\ Last(closed_trades[k].involved_exec_ids)
             \in {executions[i].execId :
                    i \in {j \in 1..Len(executions) :
                             executions[j].orderType = closed_trades[k].exit_method}}

\* C30 witness: a trade whose first exit fill was a take-profit order and
\* whose closing fill was a market order, reported as Market.
C30_Witness ==
    \E k \in 1..Len(closed_trades) :
        /\ Len(trade_ledger[k].exits) = 2
        /\ trade_ledger[k].exits[1].type = "TakeProfit"
        /\ trade_ledger[k].exits[2].type = "Market"
        /\ closed_trades[k].exit_method = "Market"

\* ------------------------------------------------ claims C31..C38
\* The execution IDs of a list of fills of the ledger, in order.
FillIds(fills) == [i \in 1..Len(fills) |-> fills[i].id]

\* C31: the involved_exec_ids of every emitted trade are the IDs of the
\* fills accumulated into its position as entries, in processing order,
\* followed by the IDs of the fills applied to it as exits, in processing
\* order, and nothing else.
C31_InvolvedIdsComplete ==
    \A k \in 1..Len(closed_trades) :
        closed_trades[k].involved_exec_ids
            = FillIds(trade_ledger[k].entries) \o FillIds(trade_ledger[k].exits)

\* C31 witness: a trade of three fills, two entries and an exit or an entry
\* and two exits, whose second ID is the second of these fills.
C31_Witness ==
    /\ pc = "done"
    /\ \E k \in 1..Len(closed_trades) :
          /\ Len(trade_ledger[k].entries) + Len(trade_ledger[k].exits) = 3
          /\ Len(closed_trades[k].involved_exec_ids) = 3
          /\ closed_trades[k].involved_exec_ids[2]
                \in {trade_ledger[k].entries[Len(trade_ledger[k].entries)].id,
                     trade_ledger[k].exits[1].id}

\* The next execution is valid, unseen, and on the opposite side of the open
\* position of its symbol: the branch that divides.
OppositeFillDue ==
    /\ pc = "parse"
    /\ idx <= Len(executions)
    /\ ~InvalidCore(executions[idx])
    /\ executions[idx].execId # ""
    /\ executions[idx].execId \notin existing_ids \cup processed_exec_ids_in_run
    /\ executions[idx].symbol \in DOMAIN open_positions
    /\ executions[idx].side # open_positions[executions[idx].symbol].side

\* C32: no position of quantity 0 (or less) is ever in the dictionary, and
\* whenever an opposite-side fill is about to be applied, the three
\* divisors are positive: the position's total_qty (proportion_closed),
\* closed_qty = min(exec_qty, total_qty) (the average prices) and the fill's
\* quantity (the fee of a flip).
C32_NoZeroDivisor ==
    /\ \A sym \in DOMAIN open_positions : open_positions[sym].total_qty > 0
    /\ OppositeFillDue =>
         LET rec == executions[idx]
             pos == open_positions[rec.symbol]
         IN /\ pos.total_qty > 0
            /\ Min(rec.execQty, pos.total_qty) > 0
            /\ rec.execQty > 0

\* C32 witness: an opposite-side fill is about to be applied to a position
\* whose quantity is within the tolerance of zero.
C32_Witness ==
    /\ OppositeFillDue
    /\ open_positions[executions[idx].symbol].total_qty <= QTY_TOLERANCE
    /\ \E i \in 1..(idx - 1) : executions[i].execQty = 0

\* The IDs listed by a trade, as a set.
TradeIds(trade) ==
    {trade.involved_exec_ids[i] : i \in 1..Len(trade.involved_exec_ids)}

\* C33 as claimed: no execution ID is listed by two trades of one
\* invocation.
C33_IdInOneTrade ==
    \A k1 \in 1..Len(closed_trades), k2 \in 1..Len(closed_trades) :
        k1 # k2 => TradeIds(closed_trades[k1]) \cap TradeIds(closed_trades[k2]) = {}

\* C33 amended: no ID is listed twice by one trade, and an ID listed by two
\* trades is the ID of a flipping fill: the last ID (the closing exit) of the
\* earlier trade and the first ID (the only entry seeded by the flip) of a
\* later trade of the same instrument; no ID is listed by three trades.
C33_IdSharedOnlyByFlip ==
    /\ \A k \in 1..Len(closed_trades) :
          \A i, j \in 1..Len(closed_trades[k].involved_exec_ids) :
              i # j => closed_trades[k].involved_exec_ids[i]
                         # closed_trades[k].involved_exec_ids[j]
    /\ \A k1 \in 1..Len(closed_trades), k2 \in 1..Len(closed_trades) :
          k1 < k2 =>
              \A x \in TradeIds(closed_trades[k1]) \cap TradeIds(closed_trades[k2]) :
                  /\ x = Last(closed_trades[k1].involved_exec_ids)
                  /\ x = closed_trades[k2].involved_exec_ids[1]
                  /\ closed_trades[k1].pair = closed_trades[k2].pair
                  /\ closed_trades[k1].type # closed_trades[k2].type
                  /\ \A k3 \in 1..Len(closed_trades) :
                        x \in TradeIds(closed_trades[k3]) => k3 \in {k1, k2}

\* C33 witness: three fills gave two trades, and the ID of the second, the
\* flipping fill, is listed by both.
C33_Witness ==
    /\ pc = "done"
    /\ Len(closed_trades) = 2
    /\ Len(executions) = 3
    /\ executions[2].execId
         \in TradeIds(closed_trades[1]) \cap TradeIds(closed_trades[2])

\* C34: every emitted trade has its entry time at or before its exit time,
\* and of two trades of one instrument the later emitted one has its exit
\* at or after the earlier one's exit and its entry at or after the earlier
\* one's exit (the intervals meet at most in that instant).
C34_TradesChronological ==
    /\ \A k \in 1..Len(closed_trades) :
          closed_trades[k].entry_dt <= closed_trades[k].exit_dt
    /\ \A k1 \in 1..Len(closed_trades), k2 \in 1..Len(closed_trades) :
          (k1 < k2 /\ closed_trades[k1].pair = closed_trades[k2].pair) =>
              /\ closed_trades[k1].exit_dt <= closed_trades[k2].exit_dt
              /\ closed_trades[k1].exit_dt <= closed_trades[k2].entry_dt

\* C34 witness: two trades of the instrument, the second opened by the flip
\* that closed the first, in the second of that flip, and closed later.
C34_Witness ==
    /\ pc = "done"
    /\ Len(closed_trades) = 2
    /\ closed_trades[1].entry_dt < closed_trades[1].exit_dt
    /\ closed_trades[1].exit_dt = closed_trades[2].entry_dt
    /\ closed_trades[2].entry_dt < closed_trades[2].exit_dt

\* The least and the greatest price of a non-empty list of fills.
RECURSIVE MinPrice(_)
MinPrice(fills) ==
    IF Len(fills) = 1 THEN fills[1].price
    ELSE Min(fills[1].price, MinPrice(Tail(fills)))

RECURSIVE MaxPrice(_)
MaxPrice(fills) ==
    IF Len(fills) = 1 THEN fills[1].price
    ELSE Max(fills[1].price, MaxPrice(Tail(fills)))

\* C35: the exit_price_avg of every emitted trade lies between the least
\* and the greatest price of the exit fills of its position.
C35_AvgExitWithinExitPrices ==
    \A k \in 1..Len(closed_trades) :
        /\ MinPrice(trade_ledger[k].exits) * PRICE_QUANT
             <= closed_trades[k].exit_price_avg
        /\ closed_trades[k].exit_price_avg
             <= MaxPrice(trade_ledger[k].exits) * PRICE_QUANT

\* C36: in the step that processes a flipping fill, the part of the fill's
\* fee added to the exit fees of the closed trade and the part seeded as
\* entry fees of the new position add up to the fill's fee.
C36_FlipFeeCountedOnce ==
    [][FlipDue =>
         LET rec == executions[idx]
             pos == open_positions[rec.symbol]
             exit_part == RSub(Rat(Last(closed_trades').commission_exit, PRICE_QUANT),
                               RInt(pos.accum_exit_fees))
             entry_part == open_positions'[rec.symbol].total_entry_fees
         IN RAdd(exit_part, entry_part) = RInt(rec.execFee)]_vars

\* C37: the notification sent after the page loop (maximum page limit
\* reached) is sent only when the last response carried a next-page cursor,
\* that is, when the loop stopped on its page count and not on a break.
C37_PageLimitWarningOnlyOnTruncation ==
    [][(pc = "fetch" /\ notifications' # notifications) => (response = "more")]_vars

\* ------------------------------------------------ app.py: closing a trade
\* The chat handlers of app.py that close a trade by hand. In app.py `sheet`
\* is the worksheet object (None when the connection failed), here TRUE or
\* FALSE; `worksheet` holds what sheet.get_all_values() returns: the header
\* row and the data rows, every row padded to the same width, every cell a
\* string. `notifications` holds the replies of the bot.
MaxCloseRows == 2    \* data rows of the worksheet in SpecClose
MaxCommands == 2     \* messages the bot answers in SpecClose

\* The columns of the worksheet the handlers touch, by letter, left to right.
Letters == <<"C", "D", "E", "S", "T">>

ColumnOf(letter) == CHOOSE c \in 1..Len(Letters) : Letters[c] = letter

\* The header texts the handlers look for (the pair and the actual exit
\* price), in short.
asset_col_name == "asset"

actual_exit_price_col_name == "actual exit price"

HeaderRow ==
    <<"exit date", "exit time", asset_col_name, "exit method",
      actual_exit_price_col_name>>

PairTexts == {"SOL/USDT", "sol/usdt", "ETH/USDT"}

\* str.upper on the pair texts.
Upper(text) == IF text = "sol/usdt" THEN "SOL/USDT" ELSE text

PriceTexts == {"150", "1e2", "150,5", "abc"}

\* str.replace(",", ".") on the price texts.
ReplaceComma(text) == IF text = "150,5" THEN "150.5" ELSE text

\* float(text) raises ValueError on a text that is not a number.
IsFloat(text) == text \in {"150", "1e2", "150.5"}

\* The cell a float written with USER_ENTERED reads back as.
FloatCell(text) == IF text = "1e2" THEN "100" ELSE text

\* header_row.index(name): the first position, ValueError if absent.
HasName(header_row, name) == \E c \in 1..Len(header_row) : header_row[c] = name

Index(header_row, name) ==
    CHOOSE c \in 1..Len(header_row) :
        /\ header_row[c] = name
        /\ \A d \in 1..(c - 1) : header_row[d] # name

\* The scan a mutation makes that forgets the test of the exit price cell.
RECURSIVE FindAnyRow(_, _, _, _, _)
FindAnyRow(rows, i, asset, asset_col, price_col) ==
    IF i <= 1 THEN 0
    ELSE IF /\ Len(rows[i]) >= Max(asset_col, price_col)
            /\ Upper(rows[i][asset_col]) = Upper(asset)
         THEN i
         ELSE FindAnyRow(rows, i - 1, asset, asset_col, price_col)

\* for i in range(len(list_of_lists) - 1, 0, -1): the number of the first
\* row from the bottom, above the header, that is wide enough, holds the
\* pair and has an empty exit price; 0 when the loop ends without a find.
RECURSIVE FindOpenRow(_, _, _, _, _)
FindOpenRow(rows, i, asset, asset_col, price_col) ==
    IF i <= 1 THEN 0
    ELSE IF /\ Len(rows[i]) >= Max(asset_col, price_col)
            /\ Upper(rows[i][asset_col]) = Upper(asset)
            /\ rows[i][price_col] = ""
         THEN i
         ELSE FindOpenRow(rows, i - 1, asset, asset_col, price_col)

\* The four updates of sheet.batch_update on row r.
ClosedRow(row, exit_date, exit_time, exit_method, exit_price) ==
    [row EXCEPT ![ColumnOf("C")] = exit_date,
                ![ColumnOf("D")] = exit_time,
                ![ColumnOf("S")] = exit_method,
                ![ColumnOf("T")] = exit_price]

Reply(kind, asset, price) == [kind |-> kind, asset |-> asset, price |-> price]

\* The body both handlers share from float(exit_price_str) on: the new rows
\* of the sheet and the reply.
CloseTrade(rows, asset_to_close, exit_price_str, exit_method) ==
    IF ~IsFloat(exit_price_str)
    THEN [rows |-> rows, reply |-> Reply("price format", "", "")]
    ELSE
    LET header_row == IF rows # <<>> THEN rows[1] ELSE <<>> IN
    IF ~(/\ HasName(header_row, asset_col_name)
         /\ HasName(header_row, actual_exit_price_col_name))
    THEN [rows |-> rows, reply |-> Reply("no column", "", "")]
    ELSE
    LET r == FindOpenRow(rows, Len(rows), asset_to_close,
                         Index(header_row, asset_col_name),
                         Index(header_row, actual_exit_price_col_name))
    IN IF r = 0
       THEN [rows |-> rows, reply |-> Reply("not found", asset_to_close, "")]
       ELSE [rows |-> [rows EXCEPT ![r] =
                          ClosedRow(@, "today", "now", exit_method,
                                    FloatCell(exit_price_str))],
             reply |-> Reply("closed", asset_to_close,
                             FloatCell(exit_price_str))]

\* message.text.split() of the messages a user sends.
CloseCommands ==
    {<<"/close", p, x>> : p \in PairTexts, x \in PriceTexts}
        \cup {<<"/close", p>> : p \in PairTexts}

CloseInputs ==
    {<<p, x>> : p \in PairTexts, x \in PriceTexts} \cup {<<p>> : p \in PairTexts}

closeUnchanged ==
    <<all_results, executions, existing_ids, idx, open_positions,
      closed_trades, processed_exec_ids_in_run, ledger, trade_ledger, earlier,
      page_count, failure, sheet, added_count, bot, id_cells, response>>

Answers(reply, target) ==
    /\ Len(notifications) < MaxCommands
    /\ notifications' = Append(notifications, reply)
    /\ pc' = target

\* handle_close: the command /close <pair> <price>.
HandleClose ==
    /\ pc = "idle"
    /\ \E parts \in CloseCommands :
          IF ~sheet
          THEN Answers(Reply("no sheet", "", ""), "idle") /\ UNCHANGED worksheet
          ELSE IF Len(parts) # 3
          THEN Answers(Reply("format", "", ""), "idle") /\ UNCHANGED worksheet
          ELSE LET out == CloseTrade(worksheet, parts[2], parts[3], "manual") IN
               /\ worksheet' = out.rows
               /\ Answers(out.reply, "idle")
    /\ UNCHANGED closeUnchanged

\* handle_close when get_all_values or batch_update raises: except Exception.
HandleCloseFails ==
    /\ pc = "idle"
    /\ sheet
    /\ \E parts \in CloseCommands : Len(parts) = 3 /\ IsFloat(parts[3])
    /\ Answers(Reply("error", "", ""), "idle")
    /\ UNCHANGED worksheet
    /\ UNCHANGED closeUnchanged

\* kb_close_trade_prompt: the button asks for pair and price and registers
\* process_close_trade_input for the next message.
KbCloseTradePrompt ==
    /\ pc = "idle"
    /\ Answers(Reply("prompt", "", ""), "close input")
    /\ UNCHANGED worksheet
    /\ UNCHANGED closeUnchanged

\* process_close_trade_input: the answer "<pair> <price>"; a wrong format or
\* price asks again and registers the handler again.
ProcessCloseTradeInput ==
    /\ pc = "close input"
    /\ \E parts \in CloseInputs :
          IF ~sheet
          THEN Answers(Reply("no sheet", "", ""), "idle") /\ UNCHANGED worksheet
          ELSE IF Len(parts) # 2
          THEN /\ Answers(Reply("format", "", ""), "close input")
               /\ UNCHANGED worksheet
          ELSE LET out == CloseTrade(worksheet, Upper(parts[1]),
                                     ReplaceComma(parts[2]), "manual (button)")
               IN /\ worksheet' = out.rows
                  /\ Answers(out.reply,
                             IF out.reply.kind = "price format"
                             THEN "close input" ELSE "idle")
    /\ UNCHANGED closeUnchanged

\* SpecClose: the bot answers up to MaxCommands messages on a worksheet of
\* up to MaxCloseRows trades, open or closed, under the header row, on a
\* worksheet whose header lacks the exit price column, on an empty
\* worksheet, or without a worksheet.
OpenRow(pair) == <<"", "", pair, "", "">>

DoneRow(pair) == <<"01.05.2025", "10:00:00", pair, "TakeProfit", "140">>

CloseRows == {OpenRow(p) : p \in PairTexts} \cup {DoneRow(p) : p \in PairTexts}

InitClose ==
    /\ pc = "idle"
    /\ sheet \in BOOLEAN
    /\ \E n \in 0..MaxCloseRows : \E data \in [1..n -> CloseRows] :
          \E header_row \in {HeaderRow,
                             [HeaderRow EXCEPT ![ColumnOf("T")] = "exit price"]} :
             worksheet \in {<<>>, <<header_row>> \o data}
    /\ notifications = <<>>
    /\ all_results = <<>>
    /\ executions = <<>>
    /\ existing_ids = {}
    /\ idx = 1
    /\ open_positions = <<>>
    /\ closed_trades = <<>>
    /\ processed_exec_ids_in_run = {}
    /\ ledger = <<>>
    /\ trade_ledger = <<>>
    /\ earlier = <<>>
    /\ page_count = 0
    /\ failure = ""
    /\ added_count = 0
    /\ bot = TRUE
    /\ id_cells = <<>>
    /\ response = ""

NextClose ==
    \/ HandleClose
    \/ HandleCloseFails
    \/ KbCloseTradePrompt
    \/ ProcessCloseTradeInput

SpecClose == InitClose /\ [][NextClose]_vars

\* The data rows of the sheet that hold the pair, whatever its case, and an
\* empty actual exit price.
OpenRowsOf(rows, pair) ==
    {r \in 2..Len(rows) :
        /\ Upper(rows[r][ColumnOf("E")]) = Upper(pair)
        /\ rows[r][ColumnOf("T")] = ""}

Bottom(rs) == CHOOSE r \in rs : \A s \in rs : s <= r

\* C38: a step of handle_close never changes the header row, the number of
\* rows or a row that has an exit price; when it answers a command of three
\* parts with a numeric price, on a sheet whose calls succeed and whose
\* header names both columns, it changes the bottom-most data row that
\* holds the pair (in any case) with an empty exit price, and only its exit
\* date, time, method and price cells, and changes nothing when there is no
\* such row; any other answer comes with no change.
C38_CloseWritesOneOpenRow ==
    [][(pc = "idle" /\ pc' = "idle" /\ notifications' # notifications) =>
         (LET reply == Last(notifications')
              open == OpenRowsOf(worksheet, reply.asset)
          IN /\ Len(worksheet') = Len(worksheet)
             /\ worksheet # <<>> => worksheet'[1] = worksheet[1]
             /\ \A r \in 2..Len(worksheet) :
                   worksheet[r][ColumnOf("T")] # "" => worksheet'[r] = worksheet[r]
             /\ IF reply.kind \in {"closed", "not found"} /\ open # {}
                THEN /\ reply.kind = "closed"
                     /\ worksheet' =
                          [worksheet EXCEPT ![Bottom(open)] =
                              [@ EXCEPT ![ColumnOf("C")] = "today",
                                        ![ColumnOf("D")] = "now",
                                        ![ColumnOf("S")] = "manual",
                                        ![ColumnOf("T")] = reply.price]]
                     /\ reply.price # ""
                ELSE worksheet' = worksheet)]_vars

\* /close has closed the lower of two open trades of the pair, written in
\* another case than the command, and left the upper one open.
C38_Witness ==
    /\ Len(worksheet) = 3
    /\ notifications # <<>>
    /\ Last(notifications).kind = "closed"
    /\ worksheet[3][ColumnOf("S")] = "manual"
    /\ worksheet[3][ColumnOf("E")] # Last(notifications).asset
    /\ Upper(worksheet[2][ColumnOf("E")]) = Upper(worksheet[3][ColumnOf("E")])
    /\ worksheet[2][ColumnOf("T")] = ""

====
